---- MODULE Spec2Model ----
(***************************************************************************)
(* au-rogue: a multi-pass source rewriter (Aurelia 1 -> Aurelia 2).        *)
(*                                                                         *)
(* The model covers the Reporter (the change log), the passes acting on a  *)
(* project of source files, and transformTemplates acting on markup files. *)
(* Strings that the code builds by concatenation or takes apart (type      *)
(* texts, token names, log messages) are sequences of string tokens, so    *)
(* that concatenation is \o and a regular-expression replace is a          *)
(* computation on the sequence.                                            *)
(***************************************************************************)
EXTENDS Integers, Sequences, FiniteSets, TLC

VARIABLES
  heap,       \* object store: reference -> ReportData {startedAt, finishedAt, entries}
  data,       \* Reporter.data: the reference the Reporter holds
  result,     \* the reference the last finish() returned (NoRef before any call)
  now,        \* the clock read by new Date()
  calls,      \* history: the record operations invoked on the Reporter, in order
  callsAtFinish, \* history: Len(calls) when finish() was last called (-1 before)
  project,    \* the ts-morph Project: sequence of source files
  pre,        \* history: the project as it was when the last pass started
  mark,       \* history: Len(entries) when the last pass started
  lastPass,   \* history: the name of the last pass run ("none" before any)
  runs,       \* history: the number of pass invocations so far
  disk,       \* the template files on disk: sequence of [path, doc]
  preDisk,    \* history: the template files when transformTemplates last started
  writes,     \* history: the files fs.writeFileSync was called on, in order
  optWrite,   \* history: options.write of the last run of transformTemplates
  pc,         \* the driver's position: the step it takes next ("idle": no driver runs)
  marks,      \* history: for each driver step taken, its name and Len(entries) at its start
  opts,       \* the command line options of the driver: [dry, compat]
  saved       \* the source files as project.saveSync() wrote them (<<>> before)

vars == <<heap, data, result, now, calls, callsAtFinish, project, pre, mark, lastPass, runs,
          disk, preDisk, writes, optWrite, pc, marks, opts, saved>>

templateVars == <<disk, preDisk, writes, optWrite>>
driverVars == <<pc, marks, opts, saved>>

\* No template files are involved.
NoTemplates == disk = <<>> /\ preDisk = <<>> /\ writes = <<>> /\ optWrite = FALSE

\* The passes are called directly, without the driver.
NoDriver ==
  pc = "idle" /\ marks = <<>> /\ opts = [dry |-> FALSE, compat |-> FALSE] /\ saved = <<>>

(***************************************************************************)
(* Bounds of the model.                                                    *)
(***************************************************************************)
MaxEntries == 2     \* record operations per Reporter in SpecReporter
MaxClock == 2       \* clock ticks

(***************************************************************************)
(* types.ts: ChangeEntry, ReportData, Reporter                             *)
(***************************************************************************)
NoRef == 0
Undefined == <<"undefined">>     \* an optional field that was not given
None == -1                       \* finishedAt?: absent

ChangeKind == {"edit", "add", "remove", "warn", "note"}

ChangeEntry(file, kind, message, before, after) ==
  [file |-> file, kind |-> kind, message |-> message, before |-> before, after |-> after]

\* constructor(options): this.data = { startedAt, options, entries: [] }
NewReportData(t) == [startedAt |-> t, finishedAt |-> None, entries |-> <<>>]

\* this.data.entries.push(e), with the mutant that puts the entry first
pushFront(h, d, e) == [h EXCEPT ![d].entries = <<e>> \o @]
push(h, d, e) == [h EXCEPT ![d].entries = Append(@, e)]

Reporter_edit(h, d, file, message, before, after) ==
  push(h, d, ChangeEntry(file, "edit", message, before, after))
Reporter_warn(h, d, file, message) ==
  push(h, d, ChangeEntry(file, "warn", message, Undefined, Undefined))
Reporter_note(h, d, file, message) ==
  push(h, d, ChangeEntry(file, "note", message, Undefined, Undefined))
Reporter_add(h, d, file, message, after) ==
  push(h, d, ChangeEntry(file, "add", message, Undefined, after))
Reporter_remove(h, d, file, message, before) ==
  push(h, d, ChangeEntry(file, "remove", message, before, Undefined))

entries == heap[data].entries
finishedAt == heap[data].finishedAt

(***************************************************************************)
(* The Reporter used on its own: inputs of the record operations.          *)
(***************************************************************************)
Files == {"file1.ts", "file2.ts"}
Messages == {<<"First change">>}
Snips == {Undefined, <<"import {} from 'module'">>}

passVarsUnchanged == UNCHANGED <<project, pre, mark, lastPass, runs, templateVars, driverVars>>

edit ==
  \E f \in Files, m \in Messages, b \in Snips, a \in Snips :
    /\ Len(calls) < MaxEntries
    /\ heap' = Reporter_edit(heap, data, f, m, b, a)
    /\ calls' = Append(calls, [op |-> "edit", file |-> f, message |-> m, before |-> b, after |-> a])
    /\ UNCHANGED <<data, result, now, callsAtFinish>>
    /\ passVarsUnchanged

warn ==
  \E f \in Files, m \in Messages :
    /\ Len(calls) < MaxEntries
    /\ heap' = Reporter_warn(heap, data, f, m)
    /\ calls' = Append(calls, [op |-> "warn", file |-> f, message |-> m, before |-> Undefined, after |-> Undefined])
    /\ UNCHANGED <<data, result, now, callsAtFinish>>
    /\ passVarsUnchanged

note ==
  \E f \in Files, m \in Messages :
    /\ Len(calls) < MaxEntries
    /\ heap' = Reporter_note(heap, data, f, m)
    /\ calls' = Append(calls, [op |-> "note", file |-> f, message |-> m, before |-> Undefined, after |-> Undefined])
    /\ UNCHANGED <<data, result, now, callsAtFinish>>
    /\ passVarsUnchanged

add ==
  \E f \in Files, m \in Messages, a \in Snips :
    /\ Len(calls) < MaxEntries
    /\ heap' = Reporter_add(heap, data, f, m, a)
    /\ calls' = Append(calls, [op |-> "add", file |-> f, message |-> m, before |-> Undefined, after |-> a])
    /\ UNCHANGED <<data, result, now, callsAtFinish>>
    /\ passVarsUnchanged

remove ==
  \E f \in Files, m \in Messages, b \in Snips :
    /\ Len(calls) < MaxEntries
    /\ heap' = Reporter_remove(heap, data, f, m, b)
    /\ calls' = Append(calls, [op |-> "remove", file |-> f, message |-> m, before |-> b, after |-> Undefined])
    /\ UNCHANGED <<data, result, now, callsAtFinish>>
    /\ passVarsUnchanged

\* A mutant of finish(): it returns a snapshot copy instead of this.data.
finishCopy ==
  /\ heap' = (2 :> [heap[data] EXCEPT !.finishedAt = now]) @@ [heap EXCEPT ![data].finishedAt = now]
  /\ result' = 2
  /\ callsAtFinish' = Len(calls)
  /\ UNCHANGED <<data, now, calls>>
  /\ passVarsUnchanged

\* finish() { this.data.finishedAt = new Date().toISOString(); return this.data; }
finish ==
  /\ heap' = [heap EXCEPT ![data].finishedAt = now]
  /\ result' = data
  /\ callsAtFinish' = Len(calls)
  /\ UNCHANGED <<data, now, calls>>
  /\ passVarsUnchanged

\* Time passes between two calls.
Tick ==
  /\ now < MaxClock
  /\ now' = now + 1
  /\ UNCHANGED <<heap, data, result, calls, callsAtFinish>>
  /\ passVarsUnchanged

InitReporter ==
  /\ now = 0
  /\ data = 1
  /\ heap = (1 :> NewReportData(0))
  /\ result = NoRef
  /\ calls = <<>>
  /\ callsAtFinish = -1

InitR ==
  /\ InitReporter
  /\ project = <<>>
  /\ pre = <<>>
  /\ mark = 0
  /\ lastPass = "none"
  /\ runs = 0
  /\ NoTemplates
  /\ NoDriver

NextR == edit \/ warn \/ note \/ add \/ remove \/ finish \/ Tick

SpecReporter == InitR /\ [][NextR]_vars

(***************************************************************************)
(* Claims about the Reporter.                                              *)
(***************************************************************************)

\* The entry a record operation is to leave in the log.
EntryOfCall(c) == [file |-> c.file, kind |-> c.op, message |-> c.message,
                   before |-> c.before, after |-> c.after]

\* C1: after any sequence of record operations, data.entries is the sequence of
\* those operations in invocation order: one entry per operation, appended at
\* the end, whatever its file or kind, earlier entries untouched.
C1_EntriesInInvocationOrder ==
  /\ Len(entries) = Len(calls)
  /\ \A i \in 1..Len(calls) : entries[i] = EntryOfCall(calls[i])

\* C1 witness: two operations on different files and of different kinds were
\* recorded, the later one on the file that sorts first.
C1_Witness ==
  /\ Len(calls) >= 2
  /\ calls[1].file = "file2.ts" /\ calls[2].file = "file1.ts"
  /\ calls[1].op = "warn" /\ calls[2].op = "edit"
  /\ Len(entries) = 2

\* C2 (as claimed): once the finish timestamp is set, no later operation,
\* another finish() included, changes it.
C2_FinishedAtNeverChanges ==
  [][finishedAt # None => finishedAt' = finishedAt]_vars

\* C3: finish() returns the Reporter's own log object, and every record
\* operation invoked after finish() appends to the log that finish() returned.
C3_ReturnedLogSeesLaterEntries ==
  result # NoRef =>
    /\ result = data
    /\ Len(heap[result].entries) = Len(calls)
    /\ \A i \in 1..Len(calls) : heap[result].entries[i] = EntryOfCall(calls[i])

\* C3 witness: an entry was recorded after finish() returned.
C3_Witness ==
  /\ result # NoRef
  /\ callsAtFinish >= 1
  /\ Len(calls) > callsAtFinish
  /\ Len(heap[result].entries) = Len(calls)

(***************************************************************************)
(* The source tree (ts-morph): a project is a sequence of source files.    *)
(*   file   = [path, imports, vars, classes, body]                         *)
(*   body   = the other statements and expressions of the file, as nodes   *)
(*   import = [id, module, named: Seq([name, alias]), default, ns]         *)
(*   var    = [name, init]            (top-level variable declarations)    *)
(*   class  = [name, decorators, hasCtor, params, members]                 *)
(*   decorator = [qual, name, call, args, path]                            *)
(*   param  = [name, typeText, tkind, scopeKw, readonlyKw]                 *)
(*   member = [kind, name, scope, isReadonly, type, initializer, decos]    *)
(* Names and texts are sequences of string tokens.                         *)
(***************************************************************************)
NoName == <<>>        \* no identifier (an absent binding, an anonymous class)
NoType == <<>>        \* p.getTypeNode() is undefined: typeText is null

Contains(seq, x) == \E i \in 1..Len(seq) : seq[i] = x
Idx(seq) == 1..Len(seq)
RemoveAt(seq, k) == [i \in 1..(Len(seq) - 1) |-> IF i < k THEN seq[i] ELSE seq[i + 1]]

\* imp.getNamedImports().length === 0 && !imp.getDefaultImport() && !imp.getNamespaceImport()
\* with the mutant that forgets the default and namespace bindings
ImportIsEmptyNamedOnly(imp) == Len(imp.named) = 0
ImportIsEmpty(imp) == Len(imp.named) = 0 /\ imp.default = NoName /\ imp.ns = NoName

\* ni.getName(): the exported name of a named import, whatever its alias
NamedNames(imp) == [i \in 1..Len(imp.named) |-> imp.named[i].name]

\* sf.getImportDeclarations().find(i => i.getModuleSpecifierValue() === module)
FindImport(imports, module) ==
  IF \E i \in 1..Len(imports) : imports[i].module = module
  THEN CHOOSE i \in 1..Len(imports) :
         /\ imports[i].module = module
         /\ \A j \in 1..(i - 1) : imports[j].module # module
  ELSE 0

FreshImportId(imports) ==
  1 + (IF Len(imports) = 0 THEN 0
       ELSE CHOOSE m \in {imports[i].id : i \in 1..Len(imports)} :
              \A i \in 1..Len(imports) : imports[i].id <= m)

\* The names of `names` that the import does not name yet, in the order of `names`
\* (a Set iterates in insertion order).
ToAdd(imp, names) == SelectSeq(names, LAMBDA n : ~Contains(NamedNames(imp), n))

NamedImport(n) == [name |-> n, alias |-> NoName]

\* existing.addNamedImport(name) for each name, or sf.addImportDeclaration(...)
AddNames(imports, module, names) ==
  LET k == FindImport(imports, module) IN
  IF k # 0
  THEN [imports EXCEPT ![k].named =
          @ \o [i \in 1..Len(ToAdd(imports[k], names)) |-> NamedImport(ToAdd(imports[k], names)[i])]]
  ELSE Append(imports, [id |-> FreshImportId(imports), module |-> module,
                        named |-> [i \in 1..Len(names) |-> NamedImport(names[i])],
                        default |-> NoName, ns |-> NoName])

\* transform-di.ts: ensureImport(sf, module, names)
ensureImportDI(sf, module, names) == [sf EXCEPT !.imports = AddNames(@, module, names)]

\* transform-di.ts: removeNamedImports(sf, module, removeNames)
removeNamedImports(sf, module, removeNames) ==
  LET imports == sf.imports
      keep(imp) ==
        IF imp.module # module THEN <<imp>>
        ELSE LET removed == \E i \in 1..Len(imp.named) : imp.named[i].name \in removeNames
                 imp2 == [imp EXCEPT !.named = SelectSeq(@, LAMBDA ni : ni.name \notin removeNames)]
             IN IF removed /\ ImportIsEmpty(imp2) THEN <<>> ELSE <<imp2>>
      f[i \in 0..Len(imports)] == IF i = 0 THEN <<>> ELSE f[i - 1] \o keep(imports[i])
  IN [sf EXCEPT !.imports = f[Len(imports)]]

\* typeText.replace(/<.*>/, ''): the text from the first "<" to the last ">" removed
StripTypeArgs(t) ==
  IF Contains(t, "<") /\ Contains(t, ">")
  THEN LET a == CHOOSE i \in 1..Len(t) : t[i] = "<" /\ \A j \in 1..(i - 1) : t[j] # "<"
           b == CHOOSE i \in 1..Len(t) : t[i] = ">" /\ \A j \in (i + 1)..Len(t) : t[j] # ">"
       IN IF a < b THEN SubSeq(t, 1, a - 1) \o SubSeq(t, b + 1, Len(t)) ELSE t
  ELSE t

\* tokenNameForInterface(name) = `${name}Token`
tokenNameForInterface(name) == name \o <<"Token">>

\* !!sf.getVariableDeclaration(tokenConst), with the mutant that never finds it
hasTokenNever(sf, tokenConst) == FALSE
hasToken(sf, tokenConst) == \E i \in 1..Len(sf.vars) : sf.vars[i].name = tokenConst

\* cls.getName() || '(anonymous)'
ClassNameOr(cls) == IF cls.name = NoName THEN <<"(anonymous)">> ELSE cls.name

\* p.isParameterProperty(), p.getScope()
isParameterProperty(p) == p.scopeKw # NoName \/ p.readonlyKw
getScope(p) == IF p.scopeKw = NoName THEN <<"public">> ELSE p.scopeKw

\* The structure handed to cls.insertProperty(0, {...}), with the mutant that
\* loses the readonly flag
PropertyOfParamNoReadonly(p, init) ==
  [kind |-> "PropertyDeclaration", name |-> p.name, scope |-> getScope(p),
   isReadonly |-> FALSE, type |-> p.typeText, initializer |-> init, decos |-> <<>>]
PropertyOfParam(p, init) ==
  [kind |-> "PropertyDeclaration", name |-> p.name, scope |-> getScope(p),
   isReadonly |-> p.readonlyKw, type |-> p.typeText, initializer |-> init, decos |-> <<>>]

\* cls.insertProperty(0, prop); p.remove()
ConvertParam(cls, p, init) ==
  [cls EXCEPT !.members = <<PropertyOfParam(p, init)>> \o @,
              !.params = SelectSeq(@, LAMBDA q : q.name # p.name)]

\* The messages of transformDI.
MsgRemovedAutoinject(cn) == <<"Removed @autoinject on class ">> \o cn
MsgConverted(name, typeText, target, cn) ==
  <<"Converted parameter property '">> \o name \o <<": ">> \o typeText
    \o <<"' to 'resolve(">> \o target \o <<")' on class ">> \o cn
MsgConvertedToken(name, typeText, tokenConst, cn) ==
  MsgConverted(name, typeText, tokenConst, cn) \o <<" (generated token)">>
MsgAddedToken(tokenConst, typeText) ==
  <<"Added interface token '">> \o tokenConst \o <<"' for type '">> \o typeText \o <<"'">>
MsgGeneratedToken(tokenConst, typeText) ==
  <<"Generated DI token '">> \o tokenConst \o <<"' for interface '">> \o typeText
    \o <<"'. Confirm registrations match this token.">>
MsgSkipped(name, typeText, cn) ==
  <<"Skipped converting parameter property '">> \o name
    \o (IF typeText # NoType THEN <<": ">> \o typeText ELSE <<>>)
    \o <<"' on class ">> \o cn
    \o <<" due to non-runtime type. Replace with resolve(...) or @inject manually.">>
MsgRemovedEmptyImport(mod) == <<"Removed empty import '", mod, "'">>

Resolve(target) == <<"resolve(">> \o target \o <<")">>
CreateInterface(typeText) ==
  <<"DI.createInterface<">> \o typeText \o <<">('">> \o typeText \o <<"')">>

(***************************************************************************)
(* transform-di.ts: transformDI(project, reporter)                         *)
(* The loops thread st = [sf, h, touched, needResolve, needDI]: the source *)
(* file being edited, the object store holding the log, and the locals.    *)
(***************************************************************************)
aureliaV1ModulesDI == <<"aurelia-framework", "aurelia-dependency-injection", "aurelia-binding">>

\* The else branch: skip, leave as is, note for manual work; with the mutant
\* that drops the parameter it skips
SkipParamDropping(st, path, ci, p) ==
  [st EXCEPT !.sf.classes[ci].params = SelectSeq(@, LAMBDA q : q.name # p.name),
             !.h = Reporter_warn(@, data, path,
                                 MsgSkipped(p.name, p.typeText, ClassNameOr(st.sf.classes[ci])))]
SkipParam(st, path, ci, p) ==
  [st EXCEPT !.h = Reporter_warn(@, data, path,
                                 MsgSkipped(p.name, p.typeText, ClassNameOr(st.sf.classes[ci])))]

\* One iteration of `for (const p of params)`.
DIParam(st, path, ci, p) ==
  LET cls == st.sf.classes[ci]
      cn == ClassNameOr(cls)
      name == p.name
      typeText == p.typeText
      isClass == p.tkind = "class"
      isInterface == p.tkind = "interface"
      tokenConst == tokenNameForInterface(StripTypeArgs(typeText))
  IN
  IF isClass /\ typeText # NoType THEN
    [st EXCEPT !.sf.classes[ci] = ConvertParam(@, p, Resolve(typeText)),
               !.h = Reporter_edit(@, data, path, MsgConverted(name, typeText, typeText, cn),
                                   Undefined, Undefined),
               !.needResolve = TRUE,
               !.touched = TRUE]
  ELSE IF isInterface /\ typeText # NoType THEN
    LET st1 == IF ~hasToken(st.sf, tokenConst)
               THEN [st EXCEPT !.sf.vars = <<[name |-> tokenConst, init |-> CreateInterface(typeText)]>> \o @,
                               !.h = Reporter_add(@, data, path, MsgAddedToken(tokenConst, typeText), Undefined),
                               !.needDI = TRUE,
                               !.touched = TRUE]
               ELSE st
    IN [st1 EXCEPT !.sf.classes[ci] = ConvertParam(@, p, Resolve(tokenConst)),
                   !.h = Reporter_warn(
                           Reporter_edit(@, data, path,
                                         MsgConvertedToken(name, typeText, tokenConst, cn),
                                         Undefined, Undefined),
                           data, path, MsgGeneratedToken(tokenConst, typeText)),
                   !.needResolve = TRUE,
                   !.touched = TRUE]
  ELSE
    SkipParam(st, path, ci, p)

\* d.getName() === 'autoinject'
IsAutoinjectDecorator(d) == d.name = <<"autoinject">>

\* `if (autoDecorators.length > 0)`: remove them and record the edit.
RemoveAutoinject(st, path, ci) ==
  IF \E i \in 1..Len(st.sf.classes[ci].decorators) :
       IsAutoinjectDecorator(st.sf.classes[ci].decorators[i])
  THEN [st EXCEPT !.sf.classes[ci].decorators =
                    SelectSeq(@, LAMBDA d : ~IsAutoinjectDecorator(d)),
                  !.touched = TRUE,
                  !.h = Reporter_edit(@, data, path,
                                      MsgRemovedAutoinject(ClassNameOr(st.sf.classes[ci])),
                                      Undefined, Undefined)]
  ELSE st

\* `if (needResolve) ensureImport(...)`, `if (needDI) ensureImport(...)`
EnsureResolve(st) ==
  IF st.needResolve THEN [st EXCEPT !.sf = ensureImportDI(@, "aurelia", <<<<"resolve">>>>)] ELSE st
EnsureDI(st) ==
  IF st.needDI THEN [st EXCEPT !.sf = ensureImportDI(@, "aurelia", <<<<"DI">>, <<"resolve">>>>)] ELSE st

\* The parameter loop of one class, from `let needResolve = false`.
DIParams(st, path, ci, params) ==
  LET f[i \in 0..Len(params)] ==
        IF i = 0 THEN [st EXCEPT !.needResolve = FALSE, !.needDI = FALSE]
        ELSE DIParam(f[i - 1], path, ci, params[i])
  IN EnsureDI(EnsureResolve(f[Len(params)]))

\* const ctor = cls.getConstructors()[0]; if (!ctor) continue;
\* const params = ...filter(p => p.isParameterProperty()); if (params.length === 0) continue;
DICtor(st, path, ci) ==
  IF ~st.sf.classes[ci].hasCtor THEN st
  ELSE IF Len(SelectSeq(st.sf.classes[ci].params, isParameterProperty)) = 0 THEN st
  ELSE DIParams(st, path, ci, SelectSeq(st.sf.classes[ci].params, isParameterProperty))

\* One iteration of `for (const cls of sf.getClasses())`.
DIClass(st, path, ci) == DICtor(RemoveAutoinject(st, path, ci), path, ci)

\* `if (touched)`: for one legacy module, drop its import statements that are
\* empty, recording a remove entry for each.
DropEmptyImports(st, path, mod) ==
  LET drop(imp) == imp.module = mod /\ ImportIsEmpty(imp)
      g[i \in 0..Len(st.sf.imports)] ==
        IF i = 0 THEN st.h
        ELSE IF drop(st.sf.imports[i])
             THEN Reporter_remove(g[i - 1], data, path, MsgRemovedEmptyImport(mod), Undefined)
             ELSE g[i - 1]
  IN [st EXCEPT !.sf.imports = SelectSeq(@, LAMBDA imp : ~drop(imp)),
                !.h = g[Len(st.sf.imports)]]

\* `if (touched) { for (const mod of aureliaV1Modules) ... }`
DICleanup(st, path) ==
  LET e[i \in 0..Len(aureliaV1ModulesDI)] ==
        IF i = 0 THEN st ELSE DropEmptyImports(e[i - 1], path, aureliaV1ModulesDI[i])
  IN IF st.touched THEN e[Len(aureliaV1ModulesDI)] ELSE st

\* `for (const mod of aureliaV1Modules) removeNamedImports(sf, mod, new Set(['autoinject']))`
DIRemoveMarkerImports(sf0) ==
  LET r[i \in 0..Len(aureliaV1ModulesDI)] ==
        IF i = 0 THEN sf0
        ELSE removeNamedImports(r[i - 1], aureliaV1ModulesDI[i], {<<"autoinject">>})
  IN r[Len(aureliaV1ModulesDI)]

\* The body of `for (const sf of project.getSourceFiles())`.
DIFile(sf0, h0) ==
  LET c[i \in 0..Len(sf0.classes)] ==
        IF i = 0 THEN [sf |-> DIRemoveMarkerImports(sf0), h |-> h0, touched |-> FALSE,
                       needResolve |-> FALSE, needDI |-> FALSE]
        ELSE DIClass(c[i - 1], sf0.path, i)
  IN DICleanup(c[Len(sf0.classes)], sf0.path)

\* transformDI over the project: the files in order, one log.
DIProject(proj, h0) ==
  LET f[i \in 0..Len(proj)] ==
        IF i = 0 THEN [sf |-> <<>>, h |-> h0]
        ELSE [sf |-> Append(f[i - 1].sf, DIFile(proj[i], f[i - 1].h).sf),
              h |-> DIFile(proj[i], f[i - 1].h).h]
  IN f[Len(proj)]

MaxRuns == 2     \* invocations of a pass on one project

transformDI ==
  /\ runs < MaxRuns
  /\ project' = DIProject(project, heap).sf
  /\ heap' = DIProject(project, heap).h
  /\ pre' = project
  /\ mark' = Len(entries)
  /\ lastPass' = "transformDI"
  /\ runs' = runs + 1
  /\ UNCHANGED <<data, result, now, calls, callsAtFinish, templateVars, driverVars>>

(***************************************************************************)
(* The projects transformDI is run on.                                     *)
(***************************************************************************)
MaxClasses == 2     \* classes per source file

\* The types the project declares, and what the type checker says of each:
\* symbol declarations that are classes, type.isInterface(), or neither.
T_HttpClient == <<"HttpClient">>
T_AppConfig == <<"AppConfig">>
T_ILogger == <<"ILogger">>
T_MyType == <<"MyType">>
T_string == <<"string">>
TypeKind(t) ==
  CASE t = T_HttpClient -> "class"
    [] t = T_AppConfig -> "class"
    [] t = T_ILogger -> "interface"
    [] OTHER -> "other"

Param(name, typeText, scopeKw, readonlyKw) ==
  [name |-> <<name>>, typeText |-> typeText, tkind |-> TypeKind(typeText),
   scopeKw |-> scopeKw, readonlyKw |-> readonlyKw]
\* `private svc = new HttpClient()`: no type node, the inferred type is a class
UntypedParam(name, scopeKw) ==
  [name |-> <<name>>, typeText |-> NoType, tkind |-> "class",
   scopeKw |-> scopeKw, readonlyKw |-> FALSE]

Private == <<"private">>
Protected == <<"protected">>
Public == <<"public">>

ParamLists ==
  { <<>>,
    <<Param("http", T_HttpClient, Private, FALSE)>>,
    <<Param("config", T_AppConfig, Private, TRUE)>>,
    <<Param("logger", T_ILogger, Private, FALSE)>>,
    <<Param("value", T_MyType, Private, FALSE)>>,
    <<Param("http", T_HttpClient, Private, FALSE),
      Param("logger", T_ILogger, Protected, FALSE),
      Param("config", T_AppConfig, Public, FALSE)>>,
    <<Param("config", T_AppConfig, NoName, TRUE),
      Param("name", T_string, NoName, FALSE)>>,
    <<UntypedParam("svc", Private)>>,
    <<Param("logger", T_ILogger, Protected, TRUE),
      Param("value", T_MyType, Private, TRUE)>>,
    <<Param("http", T_HttpClient, NoName, FALSE)>> }

Decorator(qual, name, call, args) ==
  [qual |-> qual, name |-> <<name>>, call |-> call, args |-> args,
   path |-> <<"ClassDeclaration">>]
D_autoinject == Decorator(NoName, "autoinject", FALSE, <<>>)
D_customElement == Decorator(NoName, "customElement", TRUE, <<<<"'my-element'">>>>)

ExistingMember ==
  [kind |-> "PropertyDeclaration", name |-> <<"items">>, scope |-> Public,
   isReadonly |-> FALSE, type |-> NoType, initializer |-> <<"[]">>, decos |-> <<>>]

ClassChoice(anon, decorators, hasCtor, params, members) ==
  [anon |-> anon, decorators |-> decorators, hasCtor |-> hasCtor,
   params |-> params, members |-> members]

ClassChoices ==
  { ClassChoice(FALSE, <<D_autoinject>>, TRUE, pl, <<>>) : pl \in ParamLists }
  \cup { ClassChoice(FALSE, <<D_autoinject>>, FALSE, <<>>, <<>>),
         ClassChoice(FALSE, <<>>, FALSE, <<>>, <<ExistingMember>>),
         ClassChoice(FALSE, <<>>, TRUE, <<Param("http", T_HttpClient, Private, FALSE)>>, <<>>),
         ClassChoice(FALSE, <<>>, TRUE, <<Param("logger", T_ILogger, Private, FALSE)>>, <<>>),
         ClassChoice(FALSE, <<>>, TRUE, <<Param("value", T_MyType, Private, FALSE)>>, <<>>),
         ClassChoice(FALSE, <<D_customElement, D_autoinject>>, TRUE,
                     <<Param("http", T_HttpClient, Private, TRUE)>>, <<ExistingMember>>),
         ClassChoice(TRUE, <<D_autoinject>>, TRUE,
                     <<Param("value", T_MyType, Private, FALSE)>>, <<>>) }

ClassNames == <<"ServiceA", "ServiceB", "ServiceC", "ServiceD">>

\* The classes of a file: each class declaration has a name of its own, and at
\* most one (the default export) is anonymous.
ClassLists ==
  { cs \in UNION { [1..n -> ClassChoices] : n \in 0..MaxClasses } :
      Cardinality({i \in 1..Len(cs) : cs[i].anon}) <= 1 }

MkClasses(cs) ==
  [i \in 1..Len(cs) |->
     [name |-> IF cs[i].anon THEN NoName ELSE <<ClassNames[i]>>,
      decorators |-> cs[i].decorators, hasCtor |-> cs[i].hasCtor,
      params |-> cs[i].params, members |-> cs[i].members]]

Import(id, module, names, default, ns) ==
  [id |-> id, module |-> module,
   named |-> [i \in 1..Len(names) |-> NamedImport(<<names[i]>>)],
   default |-> default, ns |-> ns]

ImportListsDI ==
  { <<>>,
    <<Import(1, "aurelia-framework", <<"autoinject">>, NoName, NoName)>>,
    <<Import(1, "aurelia-framework", <<"autoinject", "computedFrom">>, NoName, NoName)>>,
    <<Import(1, "aurelia-framework", <<"autoinject">>, <<"Framework">>, NoName)>>,
    <<Import(1, "aurelia-dependency-injection", <<"autoinject">>, NoName, NoName),
      Import(2, "aurelia", <<"resolve">>, NoName, NoName)>>,
    <<Import(1, "aurelia-framework", <<>>, NoName, <<"au">>)>>,
    <<Import(1, "aurelia", <<"Aurelia">>, NoName, NoName),
      Import(2, "aurelia-framework", <<"inject", "autoinject">>, NoName, NoName)>>,
    <<Import(1, "aurelia-binding", <<>>, NoName, NoName),
      Import(2, "aurelia-framework", <<"autoinject">>, NoName, NoName)>> }

\* Top-level variables the file declares before the pass.
VarListsDI ==
  { <<>>,
    <<[name |-> <<"ILogger", "Token">>, init |-> CreateInterface(T_ILogger)]>>,
    <<[name |-> <<"API_URL">>, init |-> <<"'/api'">>]>> }

MkFile(path, imports, varList, cs) ==
  [path |-> path, imports |-> imports, vars |-> varList, classes |-> MkClasses(cs),
   body |-> <<>>]

SmallClassLists ==
  { <<ClassChoice(FALSE, <<D_autoinject>>, TRUE, pl, <<>>)>> :
      pl \in { <<Param("http", T_HttpClient, Private, FALSE)>>,
               <<Param("logger", T_ILogger, Private, FALSE)>>,
               <<Param("value", T_MyType, Private, FALSE)>> } }

ProjectsDI ==
  { <<MkFile("test.ts", im, vs, cs)>> :
      im \in ImportListsDI, vs \in VarListsDI, cs \in ClassLists }
  \cup
  { <<MkFile("a.ts", <<Import(1, "aurelia-framework", <<"autoinject">>, NoName, NoName)>>, <<>>, c1),
      MkFile("b.ts", <<Import(1, "aurelia-framework", <<"autoinject">>, NoName, NoName)>>, <<>>, c2)>> :
      c1 \in SmallClassLists, c2 \in SmallClassLists }

InitDI ==
  /\ InitReporter
  /\ project \in ProjectsDI
  /\ pre = project
  /\ mark = 0
  /\ lastPass = "none"
  /\ runs = 0
  /\ NoTemplates
  /\ NoDriver

NextDI == transformDI

SpecDI == InitDI /\ [][NextDI]_vars

(***************************************************************************)
(* Claims about transformDI. They speak of the last run of the pass: `pre` *)
(* is the project it started from, PassEntries what it logged.             *)
(***************************************************************************)
PassEntries == SubSeq(entries, mark + 1, Len(entries))
DIRan == lastPass = "transformDI"
FileIdx == 1..Len(pre)
ClassIdx(fi) == 1..Len(pre[fi].classes)

\* The parameter properties of a class as the pass finds them.
ParamProps(cls) == IF cls.hasCtor THEN SelectSeq(cls.params, isParameterProperty) ELSE <<>>
HasAutoinject(cls) == \E i \in 1..Len(cls.decorators) : cls.decorators[i].name = <<"autoinject">>
IsInterfaceParam(p, I) == p.typeText = I /\ p.tkind = "interface"
ClassesUsing(fi, I) ==
  {ci \in ClassIdx(fi) :
     \E k \in 1..Len(ParamProps(pre[fi].classes[ci])) :
        IsInterfaceParam(ParamProps(pre[fi].classes[ci])[k], I)}
InterfaceTypes == {T_ILogger}
TokenOf(I) == I \o <<"Token">>
DeclCount(sf, n) == Cardinality({i \in Idx(sf.vars) : sf.vars[i].name = n})
AddEntriesFor(path, I) ==
  Cardinality({i \in Idx(PassEntries) :
    LET e == PassEntries[i] IN
    /\ e.kind = "add" /\ e.file = path
    /\ Contains(e.message, "Added interface token '")
    /\ SubSeq(e.message, 2, 1 + Len(TokenOf(I))) = TokenOf(I)})
FieldsResolveToken(fi, I) ==
  \A ci \in ClassIdx(fi) :
    \A k \in 1..Len(ParamProps(pre[fi].classes[ci])) :
      LET p == ParamProps(pre[fi].classes[ci])[k] IN
      IsInterfaceParam(p, I) =>
        /\ ~\E j \in 1..Len(project[fi].classes[ci].params) :
              project[fi].classes[ci].params[j].name = p.name
        /\ \E j \in 1..Len(project[fi].classes[ci].members) :
              LET m == project[fi].classes[ci].members[j] IN
              /\ m.name = p.name
              /\ m.initializer = <<"resolve(">> \o TokenOf(I) \o <<")">>

\* C4 (as claimed): in a file where two or more classes have a parameter
\* property of interface type I, after the pass there is exactly one
\* declaration of <I>Token, exactly one add entry is logged for it, and every
\* field converted from a parameter of type I is initialized with
\* resolve(<I>Token).
C4_OneTokenOneAddEntry ==
  DIRan =>
    \A fi \in FileIdx : \A I \in InterfaceTypes :
      Cardinality(ClassesUsing(fi, I)) >= 2 =>
        /\ DeclCount(project[fi], TokenOf(I)) = 1
        /\ AddEntriesFor(pre[fi].path, I) = 1
        /\ FieldsResolveToken(fi, I)

\* C4 (amended): as above, but the add entry is logged exactly when the pass
\* itself declares the token: once when the file declared no variable of that
\* name before the pass, and not at all when it did.
C4_OneTokenAddIfCreated ==
  DIRan =>
    \A fi \in FileIdx : \A I \in InterfaceTypes :
      Cardinality(ClassesUsing(fi, I)) >= 2 =>
        /\ DeclCount(project[fi], TokenOf(I)) = 1
        /\ AddEntriesFor(pre[fi].path, I) = (IF DeclCount(pre[fi], TokenOf(I)) = 0 THEN 1 ELSE 0)
        /\ FieldsResolveToken(fi, I)

\* C4 witness: two classes of one file used ILogger, the file declared no
\* token before, and the pass has declared it and logged it.
C4_Witness ==
  /\ DIRan
  /\ \E fi \in FileIdx :
       /\ Cardinality(ClassesUsing(fi, T_ILogger)) >= 2
       /\ DeclCount(pre[fi], TokenOf(T_ILogger)) = 0
       /\ DeclCount(project[fi], TokenOf(T_ILogger)) = 1
       /\ AddEntriesFor(pre[fi].path, T_ILogger) = 1

\* The edit entries of the pass that end with the name of the class.
EditEntriesOn(path, cls) ==
  Cardinality({i \in Idx(PassEntries) :
    LET e == PassEntries[i] IN
    /\ e.kind = "edit" /\ e.file = path
    /\ \E k \in 1..Len(e.message) :
         /\ e.message[k] \in {"Removed @autoinject on class ", ")' on class "}
         /\ SubSeq(e.message, k + 1, k + Len(ClassNameOr(cls))) = ClassNameOr(cls)})

\* C5 (as claimed): a class without the @autoinject decorator is left as it
\* was, whatever its parameter properties: its parameters, members and
\* decorators are unchanged and no edit entry is logged for it; a file with no
\* marked class keeps its imports and variables and gets no edit or add entry.
C5_UnmarkedClassUntouched ==
  DIRan =>
    \A fi \in FileIdx :
      /\ \A ci \in ClassIdx(fi) :
           ~HasAutoinject(pre[fi].classes[ci]) =>
             /\ project[fi].classes[ci] = pre[fi].classes[ci]
             /\ EditEntriesOn(pre[fi].path, pre[fi].classes[ci]) = 0
      /\ (\A ci \in ClassIdx(fi) : ~HasAutoinject(pre[fi].classes[ci])) =>
           /\ \A i \in 1..Len(project[fi].imports) :
                \E j \in 1..Len(pre[fi].imports) : pre[fi].imports[j].id = project[fi].imports[i].id
           /\ project[fi].vars = pre[fi].vars
           /\ \A i \in Idx(PassEntries) :
                ~(PassEntries[i].file = pre[fi].path /\ PassEntries[i].kind \in {"edit", "add"})

\* A parameter property the pass cannot convert: no written type, or a type
\* that is neither a class nor an interface.
Unresolvable(p) == p.typeText = NoType \/ p.tkind = "other"
SkipWarnsFor(path, cls, p) ==
  Cardinality({i \in Idx(PassEntries) :
    LET e == PassEntries[i] IN
    /\ e.kind = "warn" /\ e.file = path
    /\ e.message[1] = "Skipped converting parameter property '"
    /\ SubSeq(e.message, 2, 1 + Len(p.name)) = p.name
    /\ (p.typeText # NoType =>
          SubSeq(e.message, 3 + Len(p.name), 2 + Len(p.name) + Len(p.typeText)) = p.typeText)
    /\ \E k \in 1..Len(e.message) : e.message[k] = "' on class "
          /\ SubSeq(e.message, k + 1, k + Len(ClassNameOr(cls))) = ClassNameOr(cls)})

\* C6: every parameter property whose type is neither a resolvable class nor
\* an interface stays in the constructor unchanged, gets no field, and is named
\* (with its type when written) by exactly one warn entry of the pass.
C6_UnresolvableParamSkipped ==
  DIRan =>
    \A fi \in FileIdx : \A ci \in ClassIdx(fi) :
      \A k \in 1..Len(ParamProps(pre[fi].classes[ci])) :
        LET p == ParamProps(pre[fi].classes[ci])[k]
            before == pre[fi].classes[ci]
            after == project[fi].classes[ci]
        IN Unresolvable(p) =>
             /\ Cardinality({j \in Idx(after.params) : after.params[j] = p}) = 1
             /\ Cardinality({j \in Idx(after.members) : after.members[j].name = p.name})
                  = Cardinality({j \in Idx(before.members) : before.members[j].name = p.name})
             /\ SkipWarnsFor(pre[fi].path, before, p) = 1

\* C6 witness: a class had a parameter property of a union alias next to a
\* convertible one; the pass converted the one and skipped the other.
C6_Witness ==
  /\ DIRan
  /\ \E fi \in FileIdx : \E ci \in ClassIdx(fi) :
       /\ \E k \in 1..Len(ParamProps(pre[fi].classes[ci])) :
            /\ ParamProps(pre[fi].classes[ci])[k].typeText = T_MyType
            /\ SkipWarnsFor(pre[fi].path, pre[fi].classes[ci], ParamProps(pre[fi].classes[ci])[k]) = 1
       /\ Len(project[fi].classes[ci].params) < Len(pre[fi].classes[ci].params)

\* The classes the scenario of C7 speaks of: marked, with a single parameter
\* property, of a class type that is written.
SingleClassParam(cls) ==
  /\ HasAutoinject(cls)
  /\ Len(ParamProps(cls)) = 1
  /\ ParamProps(cls)[1].tkind = "class"
  /\ ParamProps(cls)[1].typeText # NoType
ImportsName(sf, module, n) ==
  \E i \in 1..Len(sf.imports) :
    sf.imports[i].module = module /\ Contains(NamedNames(sf.imports[i]), n)
WarnCount(path) ==
  Cardinality({i \in Idx(PassEntries) : PassEntries[i].kind = "warn" /\ PassEntries[i].file = path})

\* C7: for a class marked @autoinject with a single parameter property of a
\* resolvable class type C, the pass removes the decorator (and no other),
\* removes the parameter, puts a field of the same name, scope and readonly
\* flag, initialized with resolve(C), in front of the members, and has resolve
\* imported from aurelia; a file whose classes with parameter properties are
\* all of this kind gets no warn entry.
C7_SingleClassParamConverted ==
  DIRan =>
    \A fi \in FileIdx :
      /\ \A ci \in ClassIdx(fi) :
           LET before == pre[fi].classes[ci]
               after == project[fi].classes[ci]
               p == ParamProps(before)[1]
           IN SingleClassParam(before) =>
                /\ after.decorators = SelectSeq(before.decorators, LAMBDA d : d.name # <<"autoinject">>)
                /\ after.params = SelectSeq(before.params, LAMBDA q : q.name # p.name)
                /\ after.members =
                     <<[kind |-> "PropertyDeclaration", name |-> p.name,
                        scope |-> IF p.scopeKw = NoName THEN Public ELSE p.scopeKw,
                        isReadonly |-> p.readonlyKw, type |-> p.typeText,
                        initializer |-> <<"resolve(">> \o p.typeText \o <<")">>,
                        decos |-> <<>>]>> \o before.members
                /\ ImportsName(project[fi], "aurelia", <<"resolve">>)
      /\ (\A ci \in ClassIdx(fi) :
            Len(ParamProps(pre[fi].classes[ci])) > 0 => SingleClassParam(pre[fi].classes[ci]))
           => WarnCount(pre[fi].path) = 0

\* C7 witness: a marked class with a single readonly parameter property of a
\* class type has been converted.
C7_Witness ==
  /\ DIRan
  /\ \E fi \in FileIdx : \E ci \in ClassIdx(fi) :
       /\ SingleClassParam(pre[fi].classes[ci])
       /\ ParamProps(pre[fi].classes[ci])[1].readonlyKw
       /\ Len(project[fi].classes[ci].members) = Len(pre[fi].classes[ci].members) + 1
       /\ project[fi].classes[ci].members[1].isReadonly

(***************************************************************************)
(* transform-computed.ts: transformComputed                                *)
(***************************************************************************)
aureliaV1ModulesComputed == {"aurelia-binding", "aurelia-framework"}

\* ensureImport(sf, module, names): its return value, true iff it changes the imports
ensureImportChanged(sf, module, names) ==
  \/ FindImport(sf.imports, module) = 0
  \/ Len(ToAdd(sf.imports[FindImport(sf.imports, module)], names)) > 0

\* ensureImport(sf, module, names): its effect on the file
ensureImportComputed(sf, module, names) == [sf EXCEPT !.imports = AddNames(@, module, names)]

\* alias ? alias.getText() : ni.getName()
LocalName(ni) == IF ni.alias # NoName THEN ni.alias ELSE ni.name

LegacyImports(sf) ==
  {sf.imports[i] : i \in {j \in Idx(sf.imports) : sf.imports[j].module \in aureliaV1ModulesComputed}}

computedFromLocals(sf) ==
  UNION { {LocalName(imp.named[k]) :
             k \in {j \in Idx(imp.named) : imp.named[j].name = <<"computedFrom">>}} :
          imp \in LegacyImports(sf) }

computedFromNamespaces(sf) == {imp.ns : imp \in {x \in LegacyImports(sf) : x.ns # NoName}}

\* Node.isCallExpression(expr) and the callee is a local of computedFrom or
\* `<namespace>.computedFrom`
isComputedFrom(d, locals, nss) ==
  /\ d.call
  /\ \/ d.qual = NoName /\ d.name \in locals
     \/ d.qual # NoName /\ d.name = <<"computedFrom">> /\ d.qual \in nss

\* d.getFirstAncestorByKind(GetAccessor) || ...(MethodDeclaration) || ...(PropertyDeclaration):
\* the kind of `member`, "none" when it is undefined
MemberKind(d) ==
  IF Contains(d.path, "GetAccessor") THEN "GetAccessor"
  ELSE IF Contains(d.path, "MethodDeclaration") THEN "MethodDeclaration"
  ELSE IF Contains(d.path, "PropertyDeclaration") THEN "PropertyDeclaration"
  ELSE "none"

MsgRemovedDeco == <<"Removed @computedFrom decorator">>
MsgReplacedDeco == <<"Replaced @computedFrom with @computed">>
MsgMethodHad ==
  <<"A method had @computedFrom. In v2, use a getter with @computed(...) or a plain getter for dependency tracking.">>
MsgPropertyHad ==
  <<"A property had @computedFrom. In v2, use a getter with @computed(...) or a plain getter for dependency tracking.">>
MsgUnsupported ==
  <<"Found @computedFrom in an unsupported location. In v2, use a getter with @computed(...) or a plain getter.">>
MsgNoDeps ==
  <<"Getter had @computedFrom with no dependencies. In v2, use @computed(...) with deps or remove the decorator.">>
MsgRemovedComputedFromImport == <<"Removed computedFrom import">>
MsgAddedComputed == <<"Added computed import from aurelia">>

\* What the loop body does with one decorator: "skip" (continue), "remove" or "replace".
DecoOutcome(d, locals, nss) ==
  IF ~isComputedFrom(d, locals, nss) THEN "skip"
  ELSE IF MemberKind(d) # "GetAccessor" THEN "remove"
  ELSE IF Len(d.args) = 0 THEN "remove"
  ELSE "replace"

\* The warning that goes with a removal.
WarnFor(d) ==
  IF MemberKind(d) = "MethodDeclaration" THEN MsgMethodHad
  ELSE IF MemberKind(d) = "PropertyDeclaration" THEN MsgPropertyHad
  ELSE IF MemberKind(d) = "none" THEN MsgUnsupported
  ELSE MsgNoDeps

\* args.map(arg => arg.getText()).join(', ')
JoinArgs(args) ==
  LET f[i \in 0..Len(args)] ==
        IF i = 0 THEN <<>>
        ELSE IF i = 1 THEN args[1]
        ELSE f[i - 1] \o <<", ">> \o args[i]
  IN f[Len(args)]

\* The argument list of the decorator parsed from `@computed(${argsText})`.
ParseArgs(text) ==
  LET f[i \in 0..Len(text)] ==
        IF i = 0 THEN << <<>> >>
        ELSE IF text[i] = ", " THEN Append(f[i - 1], <<>>)
        ELSE [f[i - 1] EXCEPT ![Len(f[i - 1])] = Append(@, text[i])]
  IN IF Len(text) = 0 THEN <<>> ELSE f[Len(text)]

\* d.replaceWithText(`@computed(${argsText})`)
ReplaceDeco(d) ==
  [d EXCEPT !.qual = NoName, !.name = <<"computed">>, !.args = ParseArgs(JoinArgs(@))]

\* The decorators of one node after the loop: removed ones gone, replaced ones rewritten.
MapDecos(decos, locals, nss) ==
  LET kept == SelectSeq(decos, LAMBDA d : DecoOutcome(d, locals, nss) # "remove")
  IN [i \in 1..Len(kept) |->
        IF DecoOutcome(kept[i], locals, nss) = "replace" THEN ReplaceDeco(kept[i]) ELSE kept[i]]

ComputedClass(cls, locals, nss) ==
  [cls EXCEPT !.decorators = MapDecos(@, locals, nss),
              !.members = [i \in 1..Len(cls.members) |->
                             [cls.members[i] EXCEPT !.decos = MapDecos(@, locals, nss)]]]

ComputedClasses(sf, locals, nss) ==
  [sf EXCEPT !.classes = [i \in 1..Len(sf.classes) |-> ComputedClass(sf.classes[i], locals, nss)]]

\* The decorators below one class, in document order.
ClassDecos(cls) ==
  LET f[i \in 0..Len(cls.members)] ==
        IF i = 0 THEN cls.decorators ELSE f[i - 1] \o cls.members[i].decos
  IN f[Len(cls.members)]

\* sf.getDescendantsOfKind(SyntaxKind.Decorator)
FileDecos(sf) ==
  LET f[i \in 0..Len(sf.classes)] ==
        IF i = 0 THEN <<>> ELSE f[i - 1] \o ClassDecos(sf.classes[i])
  IN f[Len(sf.classes)]

\* The entries one iteration of `for (const d of decos)` records.
LogDeco(h, path, d, outcome) ==
  IF outcome = "skip" THEN h
  ELSE IF outcome = "replace"
  THEN Reporter_edit(h, data, path, MsgReplacedDeco, Undefined, Undefined)
  ELSE Reporter_warn(Reporter_edit(h, data, path, MsgRemovedDeco, Undefined, Undefined),
                     data, path, WarnFor(d))

LogDecos(h, path, decos, locals, nss) ==
  LET f[i \in 0..Len(decos)] ==
        IF i = 0 THEN h
        ELSE LogDeco(f[i - 1], path, decos[i], DecoOutcome(decos[i], locals, nss))
  IN f[Len(decos)]

\* needComputedImport after the loop
NeedComputedImport(decos, locals, nss) ==
  \E i \in Idx(decos) : DecoOutcome(decos[i], locals, nss) = "replace"

\* `if (ni.getName() === 'computedFrom') { ni.remove(); changed = true; }`
NamesComputedFrom(imp) ==
  imp.module \in aureliaV1ModulesComputed /\ Contains(NamedNames(imp), <<"computedFrom">>)
StripComputedFrom(imp) ==
  [imp EXCEPT !.named = SelectSeq(@, LAMBDA ni : ni.name # <<"computedFrom">>)]

\* One iteration of the import loop: what is left of the statement.
KeepImport(imp) ==
  IF ~NamesComputedFrom(imp) THEN <<imp>>
  ELSE IF ImportIsEmpty(StripComputedFrom(imp)) THEN <<>>
  ELSE <<StripComputedFrom(imp)>>

\* `// Remove computedFrom from imports`: the tree
RemoveComputedFromImports(sf) ==
  LET f[i \in 0..Len(sf.imports)] ==
        IF i = 0 THEN <<>> ELSE f[i - 1] \o KeepImport(sf.imports[i])
  IN [sf EXCEPT !.imports = f[Len(sf.imports)]]

\* `// Remove computedFrom from imports`: the log
LogImportEdits(h, path, imports) ==
  LET f[i \in 0..Len(imports)] ==
        IF i = 0 THEN h
        ELSE IF NamesComputedFrom(imports[i])
             THEN Reporter_edit(f[i - 1], data, path, MsgRemovedComputedFromImport,
                                Undefined, Undefined)
             ELSE f[i - 1]
  IN f[Len(imports)]

\* `if (needComputedImport) { if (ensureImport(...)) reporter.add(...) }`
ComputedImportStep(sf, h, need) ==
  IF need /\ ensureImportChanged(sf, "aurelia", << <<"computed">> >>)
  THEN [sf |-> ensureImportComputed(sf, "aurelia", << <<"computed">> >>),
        h |-> Reporter_add(h, data, sf.path, MsgAddedComputed, Undefined)]
  ELSE [sf |-> sf, h |-> h]

ComputedFileWith(sf0, h0, locals, nss) ==
  ComputedImportStep(
    RemoveComputedFromImports(ComputedClasses(sf0, locals, nss)),
    LogImportEdits(LogDecos(h0, sf0.path, FileDecos(sf0), locals, nss), sf0.path, sf0.imports),
    NeedComputedImport(FileDecos(sf0), locals, nss))

\* The body of `for (const sf of project.getSourceFiles())`.
ComputedFile(sf0, h0) ==
  ComputedFileWith(sf0, h0, computedFromLocals(sf0), computedFromNamespaces(sf0))

\* transformComputed over the project: the files in order, one log.
ComputedProject(proj, h0) ==
  LET f[i \in 0..Len(proj)] ==
        IF i = 0 THEN [sf |-> <<>>, h |-> h0]
        ELSE [sf |-> Append(f[i - 1].sf, ComputedFile(proj[i], f[i - 1].h).sf),
              h |-> ComputedFile(proj[i], f[i - 1].h).h]
  IN f[Len(proj)]

transformComputed ==
  /\ runs < MaxRuns
  /\ project' = ComputedProject(project, heap).sf
  /\ heap' = ComputedProject(project, heap).h
  /\ pre' = project
  /\ mark' = Len(entries)
  /\ lastPass' = "transformComputed"
  /\ runs' = runs + 1
  /\ UNCHANGED <<data, result, now, calls, callsAtFinish, templateVars, driverVars>>

(***************************************************************************)
(* The projects transformComputed is run on (and transformDI with it, as   *)
(* the passes run one after the other on the same project).                *)
(***************************************************************************)
MaxGetters == 2     \* decorated getters of one class, all upgraded

DecoratorAt(qual, name, call, args, path) ==
  [qual |-> qual, name |-> <<name>>, call |-> call, args |-> args, path |-> path]

Member(kind, name, decos) ==
  [kind |-> kind, name |-> <<name>>, scope |-> Public, isReadonly |-> FALSE,
   type |-> NoType, initializer |-> NoName, decos |-> decos]

Dep1 == << <<"'value'">> >>
Dep2 == << <<"'firstName'">>, <<"'lastName'">> >>

\* Where a decorator sits: the kinds of its ancestors, nearest first.
OnClass == <<"ClassDeclaration">>
OnGetter == <<"GetAccessor", "ClassDeclaration">>
OnSetter == <<"SetAccessor", "ClassDeclaration">>
OnMethod == <<"MethodDeclaration", "ClassDeclaration">>
OnProperty == <<"PropertyDeclaration", "ClassDeclaration">>
OnMethodParameter == <<"Parameter", "MethodDeclaration", "ClassDeclaration">>
OnMethodInGetter == <<"MethodDeclaration", "ClassExpression", "GetAccessor", "ClassDeclaration">>

D_computedFrom(args, path) == DecoratorAt(NoName, "computedFrom", TRUE, args, path)
D_observable == DecoratorAt(NoName, "observable", FALSE, <<>>, OnProperty)

GetterNames == <<"fullName", "displayName", "initials", "sortKey">>
UpgradableGetter(i) == Member("GetAccessor", GetterNames[i], <<D_computedFrom(Dep2, OnGetter)>>)

MemberListsComputed ==
  { <<>>,
    <<Member("GetAccessor", "displayValue", <<D_computedFrom(Dep1, OnGetter)>>)>>,
    <<Member("GetAccessor", "displayValue", <<D_computedFrom(<<>>, OnGetter)>>)>>,
    <<Member("GetAccessor", "displayValue", <<DecoratorAt(NoName, "cf", TRUE, Dep1, OnGetter)>>)>>,
    <<Member("GetAccessor", "displayValue",
             <<DecoratorAt(<<"au">>, "computedFrom", TRUE, Dep2, OnGetter)>>)>>,
    <<Member("GetAccessor", "displayValue",
             <<DecoratorAt(NoName, "computedFrom", FALSE, <<>>, OnGetter)>>)>>,
    <<Member("GetAccessor", "displayValue",
             <<DecoratorAt(NoName, "deprecated", TRUE, <<>>, OnGetter),
               D_computedFrom(Dep2, OnGetter)>>)>>,
    <<Member("MethodDeclaration", "getValue", <<D_computedFrom(Dep1, OnMethod)>>)>>,
    <<Member("PropertyDeclaration", "value", <<D_computedFrom(Dep1, OnProperty)>>)>>,
    <<Member("SetAccessor", "value", <<D_computedFrom(Dep1, OnSetter)>>)>>,
    <<Member("MethodDeclaration", "greet", <<D_computedFrom(Dep1, OnMethodParameter)>>)>>,
    <<Member("GetAccessor", "helper", <<D_computedFrom(Dep1, OnMethodInGetter)>>)>>,
    <<Member("PropertyDeclaration", "value", <<D_observable>>),
      Member("GetAccessor", "displayValue", <<D_computedFrom(Dep1, OnGetter)>>)>>,
    <<Member("MethodDeclaration", "getValue", <<D_computedFrom(Dep1, OnMethod)>>),
      Member("GetAccessor", "displayValue", <<D_computedFrom(Dep1, OnGetter)>>)>>,
    <<Member("PropertyDeclaration", "value", <<D_computedFrom(Dep1, OnProperty)>>),
      Member("GetAccessor", "displayValue", <<D_computedFrom(<<>>, OnGetter)>>)>> }
  \cup { [i \in 1..n |-> UpgradableGetter(i)] : n \in 1..MaxGetters }

ClassChoicesComputed ==
  { ClassChoice(FALSE, <<>>, FALSE, <<>>, ms) : ms \in MemberListsComputed }
  \cup { ClassChoice(FALSE, <<D_autoinject>>, TRUE,
                     <<Param("http", T_HttpClient, Private, FALSE)>>, ms) :
           ms \in MemberListsComputed }
  \cup { ClassChoice(FALSE, <<D_computedFrom(Dep1, OnClass)>>, FALSE, <<>>, <<>>) }

AliasImport(id, module, name, alias) ==
  [id |-> id, module |-> module, named |-> <<[name |-> <<name>>, alias |-> <<alias>>]>>,
   default |-> NoName, ns |-> NoName]

ImportListsComputed ==
  { <<>>,
    <<Import(1, "aurelia-binding", <<"computedFrom", "observable">>, NoName, NoName)>>,
    <<Import(1, "aurelia-framework", <<"computedFrom", "autoinject">>, NoName, NoName)>>,
    <<Import(1, "aurelia-framework", <<"computedFrom">>, NoName, NoName)>>,
    <<Import(1, "aurelia-framework", <<"computedFrom">>, <<"Framework">>, NoName)>>,
    <<Import(1, "aurelia-framework", <<"autoinject">>, <<"Framework">>, NoName)>>,
    <<AliasImport(1, "aurelia-binding", "computedFrom", "cf")>>,
    <<Import(1, "aurelia-framework", <<>>, NoName, <<"au">>)>>,
    <<Import(1, "other-lib", <<"computedFrom">>, NoName, NoName)>>,
    <<Import(1, "aurelia-framework", <<"autoinject">>, NoName, NoName)>>,
    <<Import(1, "aurelia-binding", <<"computedFrom">>, NoName, NoName),
      Import(2, "aurelia-framework", <<"computedFrom", "autoinject">>, NoName, NoName),
      Import(3, "aurelia-framework", <<"computedFrom">>, <<"Framework">>, NoName)>>,
    <<Import(1, "aurelia", <<"Aurelia">>, NoName, NoName),
      Import(2, "aurelia-binding", <<"computedFrom">>, NoName, NoName)>>,
    <<Import(1, "aurelia", <<"computed">>, NoName, NoName),
      Import(2, "aurelia-framework", <<"computedFrom">>, NoName, NoName)>>,
    <<Import(1, "aurelia", <<"Aurelia">>, NoName, NoName),
      Import(2, "aurelia", <<"computed">>, NoName, NoName),
      Import(3, "aurelia-binding", <<"computedFrom">>, NoName, NoName)>> }

ProjectsComputed ==
  { <<MkFile("test.ts", im, <<>>, <<c>>)>> :
      im \in ImportListsComputed, c \in ClassChoicesComputed }
  \cup
  { <<MkFile("a.ts", <<Import(1, "aurelia-binding", <<"computedFrom">>, NoName, NoName)>>, <<>>,
             <<ClassChoice(FALSE, <<>>, FALSE, <<>>, m1)>>),
      MkFile("b.ts", <<Import(1, "aurelia-framework", <<"computedFrom">>, NoName, NoName)>>, <<>>,
             <<ClassChoice(FALSE, <<>>, FALSE, <<>>, m2)>>)>> :
      m1 \in {[i \in 1..n |-> UpgradableGetter(i)] : n \in 1..MaxGetters},
      m2 \in {<<>>, <<UpgradableGetter(1)>>,
              <<Member("MethodDeclaration", "getValue", <<D_computedFrom(Dep1, OnMethod)>>)>>} }

InitComputed ==
  /\ InitReporter
  /\ project \in ProjectsComputed
  /\ pre = project
  /\ mark = 0
  /\ lastPass = "none"
  /\ runs = 0
  /\ NoTemplates
  /\ NoDriver

NextComputed == transformComputed \/ transformDI

SpecComputed == InitComputed /\ [][NextComputed]_vars

(***************************************************************************)
(* Claims about the import bookkeeping of the passes and about             *)
(* transformComputed. They speak of the last run of a pass.                *)
(***************************************************************************)
ComputedRan == lastPass = "transformComputed"

\* The named binding the last pass takes out of import statements, and the
\* modules it takes it out of.
RemovedBinding == IF DIRan THEN <<"autoinject">> ELSE <<"computedFrom">>
RemovalModules ==
  IF DIRan THEN {aureliaV1ModulesDI[i] : i \in Idx(aureliaV1ModulesDI)}
  ELSE aureliaV1ModulesComputed
LosesBinding(imp) ==
  imp.module \in RemovalModules /\ Contains(NamedNames(imp), RemovedBinding)
RemainingNamed(imp) == SelectSeq(imp.named, LAMBDA ni : ni.name # RemovedBinding)
StatementsOf(sf, imp) ==
  {k \in Idx(sf.imports) : sf.imports[k].id = imp.id /\ sf.imports[k].module = imp.module}

\* C8: for every import statement the last pass removed a named binding from:
\* the statement is gone if it was left with no named, no default and no
\* namespace binding; otherwise it is still there, with the bindings that
\* were not removed unchanged and in their order.
C8_ImportRemovedIffEmpty ==
  lastPass # "none" =>
    \A fi \in FileIdx :
      \A i \in Idx(pre[fi].imports) :
        LET imp == pre[fi].imports[i] IN
        LosesBinding(imp) =>
          IF Len(RemainingNamed(imp)) = 0 /\ imp.default = NoName /\ imp.ns = NoName
          THEN StatementsOf(project[fi], imp) = {}
          ELSE /\ Cardinality(StatementsOf(project[fi], imp)) = 1
               /\ \A k \in StatementsOf(project[fi], imp) :
                    project[fi].imports[k] = [imp EXCEPT !.named = RemainingNamed(imp)]

\* C8 witness: transformComputed has removed computedFrom from three
\* statements of a file: one is gone, one is kept with its other named
\* binding, one is kept for its default binding alone.
C8_Witness ==
  /\ ComputedRan
  /\ \E fi \in FileIdx :
       \E i, j, k \in Idx(pre[fi].imports) :
         /\ LosesBinding(pre[fi].imports[i])
         /\ LosesBinding(pre[fi].imports[j])
         /\ LosesBinding(pre[fi].imports[k])
         /\ StatementsOf(project[fi], pre[fi].imports[i]) = {}
         /\ StatementsOf(project[fi], pre[fi].imports[j]) # {}
         /\ Len(RemainingNamed(pre[fi].imports[j])) > 0
         /\ StatementsOf(project[fi], pre[fi].imports[k]) # {}
         /\ Len(RemainingNamed(pre[fi].imports[k])) = 0
         /\ pre[fi].imports[k].default # NoName

\* The node a decorator is attached to.
AttachedTo(d) == d.path[1]
Resolves(d, sf) == isComputedFrom(d, computedFromLocals(sf), computedFromNamespaces(sf))

\* The policy by attachment point.
PolicyFor(d) ==
  IF AttachedTo(d) = "GetAccessor" THEN (IF Len(d.args) > 0 THEN "replace" ELSE "nodeps")
  ELSE IF AttachedTo(d) = "MethodDeclaration" THEN "method"
  ELSE IF AttachedTo(d) = "PropertyDeclaration" THEN "property"
  ELSE "generic"
PolicyWarning(policy) ==
  IF policy = "nodeps" THEN MsgNoDeps
  ELSE IF policy = "method" THEN MsgMethodHad
  ELSE IF policy = "property" THEN MsgPropertyHad
  ELSE MsgUnsupported

\* The decorators of one node as the policy leaves them.
PolicyDecos(decos, sf) ==
  LET kept == SelectSeq(decos, LAMBDA d : ~Resolves(d, sf) \/ PolicyFor(d) = "replace")
  IN [i \in 1..Len(kept) |->
        IF Resolves(kept[i], sf)
        THEN [kept[i] EXCEPT !.qual = NoName, !.name = <<"computed">>]
        ELSE kept[i]]
PolicyCount(sf, policy) ==
  Cardinality({i \in Idx(FileDecos(sf)) :
                 Resolves(FileDecos(sf)[i], sf) /\ PolicyFor(FileDecos(sf)[i]) = policy})
WarnsWith(path, msg) ==
  Cardinality({i \in Idx(PassEntries) :
                 /\ PassEntries[i].kind = "warn"
                 /\ PassEntries[i].file = path
                 /\ PassEntries[i].message = msg})

\* C9: after transformComputed, every class has the members it had; the
\* decorators of every class and member are those it had, except that a
\* call-form decorator resolving to computedFrom is, on a getter with
\* arguments, @computed with the same arguments in the same order, and is
\* gone anywhere else; and the file has one warning of the matching text for
\* each such decorator on a getter without arguments, on a method, on a plain
\* field, and (the generic text) on any other node.
C9_PolicyByAttachmentPoint ==
  ComputedRan =>
    \A fi \in FileIdx :
      LET before == pre[fi]
          after == project[fi]
      IN /\ Len(after.classes) = Len(before.classes)
         /\ \A ci \in Idx(before.classes) :
              /\ after.classes[ci].decorators = PolicyDecos(before.classes[ci].decorators, before)
              /\ Len(after.classes[ci].members) = Len(before.classes[ci].members)
              /\ \A mi \in Idx(before.classes[ci].members) :
                   /\ after.classes[ci].members[mi] =
                        [before.classes[ci].members[mi] EXCEPT
                           !.decos = after.classes[ci].members[mi].decos]
                   /\ after.classes[ci].members[mi].decos =
                        PolicyDecos(before.classes[ci].members[mi].decos, before)
         /\ \A policy \in {"nodeps", "method", "property", "generic"} :
              WarnsWith(before.path, PolicyWarning(policy)) = PolicyCount(before, policy)

\* The getters of a file the last run upgraded, and its bookkeeping of the
\* modern import.
UpgradedCount(path) ==
  Cardinality({i \in Idx(PassEntries) :
                 /\ PassEntries[i].kind = "edit"
                 /\ PassEntries[i].file = path
                 /\ PassEntries[i].message = MsgReplacedDeco})
AddEntryCount(path) ==
  Cardinality({i \in Idx(PassEntries) :
                 PassEntries[i].kind = "add" /\ PassEntries[i].file = path})
ComputedNamings(sf) ==
  Cardinality({ik \in UNION {{<<i, k>> : k \in Idx(sf.imports[i].named)} : i \in Idx(sf.imports)} :
                 /\ sf.imports[ik[1]].module = "aurelia"
                 /\ sf.imports[ik[1]].named[ik[2]].name = <<"computed">>})

\* C10: after transformComputed, a file in which a getter was upgraded names
\* computed in its imports from aurelia exactly once; a file in which none
\* was upgraded has the imports from aurelia it had and no add entry; and no
\* file has more than one add entry.
C10_ComputedImportedOnce ==
  ComputedRan =>
    \A fi \in FileIdx :
      /\ UpgradedCount(pre[fi].path) > 0 => ComputedNamings(project[fi]) = 1
      /\ UpgradedCount(pre[fi].path) = 0 =>
           /\ ComputedNamings(project[fi]) = ComputedNamings(pre[fi])
           /\ AddEntryCount(pre[fi].path) = 0
      /\ AddEntryCount(pre[fi].path) <= 1

(***************************************************************************)
(* transform-platform.ts: transformPlatform                                *)
(*   body node = [kind |-> "call", obj, prop, args]   a call obj.prop(args) *)
(*             | [kind |-> "expr", text]              another expression   *)
(*             | [kind |-> "string", text]            a string or comment  *)
(***************************************************************************)
aureliaV1PlatformModules == <<"aurelia-pal", "aurelia-framework">>

\* callExpr.getText(): `obj.prop(arg, arg)`
CallText(obj, prop, args) == <<obj, ".", prop, "(">> \o JoinArgs(args) \o <<")">>
NodeText(n) == IF n.kind = "call" THEN CallText(n.obj, n.prop, n.args) ELSE n.text

\* isPlatformModuleNameCall(callExpr)
isPlatformModuleNameCall(n) ==
  n.kind = "call" /\ n.obj = "PLATFORM" /\ n.prop = "moduleName"

\* `if (args.length === 1)`, with the mutant that takes any call with arguments
RewritableAnyArgs(n) == Len(n.args) >= 1
Rewritable(n) == Len(n.args) = 1

MsgRemovedCall == <<"Removed PLATFORM.moduleName() call">>
MsgManualReview(n) ==
  <<"PLATFORM.moduleName() call with ", ToString(n), " arguments needs manual review">>
MsgRemovedCalls(n) ==
  <<"Removed ", ToString(n), " PLATFORM.moduleName() call", IF n = 1 THEN "" ELSE "s">>
MsgRemovedPlatformImport(mod) == <<"Removed unused PLATFORM import from ", mod>>
MsgRemovedEmptyDeclaration(mod) == <<"Removed empty import declaration for ", mod>>

\* callExpr.replaceWithText(moduleNameText)
ReplaceCall(n) == [kind |-> "expr", text |-> n.args[1]]

\* One iteration of `for (const callExpr of callExpressions)`.
PlatformCall(st, path, i) ==
  IF ~isPlatformModuleNameCall(st.sf.body[i]) THEN st
  ELSE IF Rewritable(st.sf.body[i])
  THEN [st EXCEPT !.sf.body[i] = ReplaceCall(@),
                  !.removed = @ + 1,
                  !.h = Reporter_edit(@, data, path, MsgRemovedCall,
                                      CallText("PLATFORM", "moduleName", <<st.sf.body[i].args[1]>>),
                                      st.sf.body[i].args[1])]
  ELSE [st EXCEPT !.h = Reporter_warn(@, data, path, MsgManualReview(Len(st.sf.body[i].args)))]

PlatformCalls(sf0, h0) ==
  LET f[i \in 0..Len(sf0.body)] ==
        IF i = 0 THEN [sf |-> sf0, h |-> h0, removed |-> 0]
        ELSE PlatformCall(f[i - 1], sf0.path, i)
  IN f[Len(sf0.body)]

\* sf.getFullText() as far as /\bPLATFORM\./ can match in it: the body, node by node
FullText(sf) ==
  LET f[i \in 0..Len(sf.body)] ==
        IF i = 0 THEN <<>> ELSE f[i - 1] \o NodeText(sf.body[i]) \o <<";">>
  IN f[Len(sf.body)]

\* sourceText.match(/\bPLATFORM\./g) is not empty
platformReferences(text) ==
  \E i \in 1..(Len(text) - 1) : text[i] = "PLATFORM" /\ text[i + 1] = "."

NamesPlatform(imp, mod) == imp.module = mod /\ Contains(NamedNames(imp), <<"PLATFORM">>)
StripPlatform(imp) == [imp EXCEPT !.named = SelectSeq(@, LAMBDA ni : ni.name # <<"PLATFORM">>)]

\* imp.getText() of a declaration left without bindings
EmptyImportText(mod) == <<"import {} from '", mod, "'">>

\* One iteration of `for (const imp of imports)`: what is left of the statement.
KeepPlatformImport(imp, mod) ==
  IF ~NamesPlatform(imp, mod) THEN <<imp>>
  ELSE IF ImportIsEmpty(StripPlatform(imp)) THEN <<>>
  ELSE <<StripPlatform(imp)>>

\* The entries one iteration of `for (const imp of imports)` records.
LogPlatformImport(h, path, imp, mod) ==
  LET n == Cardinality({k \in Idx(imp.named) : imp.named[k].name = <<"PLATFORM">>})
      e[k \in 0..n] ==
        IF k = 0 THEN h
        ELSE Reporter_edit(e[k - 1], data, path, MsgRemovedPlatformImport(mod), Undefined, Undefined)
  IN IF ~NamesPlatform(imp, mod) THEN h
     ELSE IF ImportIsEmpty(StripPlatform(imp))
     THEN Reporter_remove(e[n], data, path, MsgRemovedEmptyDeclaration(mod), EmptyImportText(mod))
     ELSE e[n]

\* One iteration of `for (const moduleName of aureliaV1PlatformModules)`.
RemovePlatformImportsOf(st, path, mod) ==
  LET imports == st.sf.imports
      t[i \in 0..Len(imports)] ==
        IF i = 0 THEN <<>> ELSE t[i - 1] \o KeepPlatformImport(imports[i], mod)
      g[i \in 0..Len(imports)] ==
        IF i = 0 THEN st.h ELSE LogPlatformImport(g[i - 1], path, imports[i], mod)
  IN [st EXCEPT !.sf.imports = t[Len(imports)], !.h = g[Len(imports)]]

removePlatformImportsIfUnused(st, path) ==
  LET f[i \in 0..Len(aureliaV1PlatformModules)] ==
        IF i = 0 THEN st
        ELSE RemovePlatformImportsOf(f[i - 1], path, aureliaV1PlatformModules[i])
  IN IF platformReferences(FullText(st.sf)) THEN st ELSE f[Len(aureliaV1PlatformModules)]

\* `if (touched) { removePlatformImportsIfUnused(sf, reporter); reporter.edit(...) }`
PlatformSummary(st, path) ==
  [st EXCEPT !.h = Reporter_edit(@, data, path, MsgRemovedCalls(st.removed), Undefined, Undefined)]
PlatformCleanup(st, path) ==
  IF st.removed > 0 THEN PlatformSummary(removePlatformImportsIfUnused(st, path), path) ELSE st

\* The body of `for (const sf of project.getSourceFiles())`.
PlatformFile(sf0, h0) == PlatformCleanup(PlatformCalls(sf0, h0), sf0.path)

\* transformPlatform over the project: the files in order, one log.
PlatformProject(proj, h0) ==
  LET f[i \in 0..Len(proj)] ==
        IF i = 0 THEN [sf |-> <<>>, h |-> h0]
        ELSE [sf |-> Append(f[i - 1].sf, PlatformFile(proj[i], f[i - 1].h).sf),
              h |-> PlatformFile(proj[i], f[i - 1].h).h]
  IN f[Len(proj)]

transformPlatform ==
  /\ runs < MaxRuns
  /\ project' = PlatformProject(project, heap).sf
  /\ heap' = PlatformProject(project, heap).h
  /\ pre' = project
  /\ mark' = Len(entries)
  /\ lastPass' = "transformPlatform"
  /\ runs' = runs + 1
  /\ UNCHANGED <<data, result, now, calls, callsAtFinish, templateVars, driverVars>>

(***************************************************************************)
(* The projects transformPlatform is run on.                               *)
(***************************************************************************)
MaxCalls == 3     \* rewritable wrapper calls in one file

Call(obj, prop, args) == [kind |-> "call", obj |-> obj, prop |-> prop, args |-> args]
Expr(text) == [kind |-> "expr", text |-> text]
StringNode(text) == [kind |-> "string", text |-> text]

ModulePaths == <<"'./a'", "'./b'", "'./c'", "'./d'">>
Wrapper(i) == Call("PLATFORM", "moduleName", << <<ModulePaths[i]>> >>)
Wrapper2 == Call("PLATFORM", "moduleName", << <<"'./module'">>, <<"'extra-arg'">> >>)
Wrapper0 == Call("PLATFORM", "moduleName", <<>>)
PlatformGlobal == Expr(<<"PLATFORM", ".", "global">>)
PlatformBare == Expr(<<"PLATFORM">>)
PlatformInString == StringNode(<<"'", "PLATFORM", ".", "md", "'">>)

BodiesPlatform ==
  { <<>>,
    <<Wrapper2>>,
    <<Wrapper0>>,
    <<Wrapper(1), PlatformGlobal>>,
    <<Wrapper(1), PlatformBare>>,
    <<Wrapper(1), PlatformInString>>,
    <<Wrapper(1), Wrapper2>>,
    <<Wrapper2, Wrapper(1), Wrapper2>>,
    <<Wrapper0, Wrapper(1)>>,
    <<Call("Other", "moduleName", << <<"'./a'">> >>), Wrapper(1)>>,
    <<Call("PLATFORM", "eachModule", << <<"cb">> >>), Wrapper(1)>>,
    <<PlatformGlobal>>,
    <<Wrapper(1), Expr(<<"autoinject">>)>> }
  \cup { [i \in 1..n |-> Wrapper(i)] : n \in 1..MaxCalls }

ImportListsPlatform ==
  { <<>>,
    <<Import(1, "aurelia-pal", <<"PLATFORM">>, NoName, NoName)>>,
    <<Import(1, "aurelia-framework", <<"PLATFORM", "autoinject">>, NoName, NoName)>>,
    <<Import(1, "aurelia-framework", <<"PLATFORM">>, <<"Framework">>, NoName)>>,
    <<Import(1, "aurelia-framework", <<"autoinject">>, NoName, NoName),
      Import(2, "aurelia-pal", <<"PLATFORM">>, NoName, NoName)>>,
    <<Import(1, "other-pal", <<"PLATFORM">>, NoName, NoName)>> }

MkFileBody(path, imports, body) == [MkFile(path, imports, <<>>, <<>>) EXCEPT !.body = body]

ProjectsPlatform ==
  { <<MkFileBody("test.ts", im, b)>> : im \in ImportListsPlatform, b \in BodiesPlatform }
  \cup
  { <<MkFileBody("a.ts", <<Import(1, "aurelia-pal", <<"PLATFORM">>, NoName, NoName)>>, b1),
      MkFileBody("b.ts", <<Import(1, "aurelia-pal", <<"PLATFORM">>, NoName, NoName)>>, b2)>> :
      b1 \in {<<Wrapper(1)>>, <<Wrapper2>>}, b2 \in {<<Wrapper(1), PlatformGlobal>>, <<Wrapper2>>} }

InitPlatform ==
  /\ InitReporter
  /\ project \in ProjectsPlatform
  /\ pre = project
  /\ mark = 0
  /\ lastPass = "none"
  /\ runs = 0
  /\ NoTemplates
  /\ NoDriver

NextPlatform == transformPlatform \/ transformDI

SpecPlatform == InitPlatform /\ [][NextPlatform]_vars

(***************************************************************************)
(* Claims about transformPlatform.                                         *)
(***************************************************************************)
PlatformRan == lastPass = "transformPlatform"

\* The wrapper calls of a file that do not have exactly one argument.
OddCalls(sf) == {i \in Idx(sf.body) : isPlatformModuleNameCall(sf.body[i]) /\ Len(sf.body[i].args) # 1}
OddCallsWith(sf, n) == {i \in OddCalls(sf) : Len(sf.body[i].args) = n}
ArgCounts(sf) == {Len(sf.body[i].args) : i \in OddCalls(sf)}
ManualReviewWarns(path) ==
  {i \in Idx(PassEntries) :
     /\ PassEntries[i].kind = "warn"
     /\ PassEntries[i].file = path
     /\ Contains(PassEntries[i].message, " arguments needs manual review")}

UsesPlatform(sf) ==
  \E i \in Idx(sf.body) :
    /\ sf.body[i].kind # "string"
    /\ Contains(NodeText(sf.body[i]), "PLATFORM")
ImportsPlatformBinding(sf) ==
  \E i \in Idx(sf.imports) :
    /\ sf.imports[i].module \in {aureliaV1PlatformModules[k] : k \in Idx(aureliaV1PlatformModules)}
    /\ Contains(NamedNames(sf.imports[i]), <<"PLATFORM">>)
Rewrote(fi) == project[fi].body # pre[fi].body

\* C12: after transformPlatform has rewritten a wrapper call in a file that
\* imported PLATFORM from a legacy module, the file still imports it if and
\* only if the identifier PLATFORM occurs in it outside import statements.
C12_PlatformImportKeptIffUsed ==
  PlatformRan =>
    \A fi \in FileIdx :
      (Rewrote(fi) /\ ImportsPlatformBinding(pre[fi]))
        => (ImportsPlatformBinding(project[fi]) <=> UsesPlatform(project[fi]))

(***************************************************************************)
(* transform-templates.ts: transformTemplates                              *)
(*   doc     = the elements of the tree parseFragment yields for a file,   *)
(*             in the order visit() reaches them (children, then the       *)
(*             content of a <template>)                                    *)
(*   element = [tagName, attrs: Seq([name, value])]                        *)
(* An attribute name is its base followed by its dotted suffixes           *)
(* (<<"click", ".delegate">>); a value is a sequence of tokens.            *)
(***************************************************************************)
Attr(name, value) == [name |-> name, value |-> value]

\* a.name.endsWith(suffix)
endsWith(name, suffix) == Len(name) > 0 /\ name[Len(name)] = suffix

\* a.name.replace(from, to): the first occurrence only
replaceFirst(name, from, to) ==
  IF Contains(name, from)
  THEN [name EXCEPT ![CHOOSE i \in Idx(name) :
                        name[i] = from /\ \A j \in 1..(i - 1) : name[j] # from] = to]
  ELSE name

\* a.value.trim()
trim(value) ==
  LET keep == {i \in Idx(value) : value[i] # " "} IN
  IF keep = {} THEN <<>>
  ELSE SubSeq(value, CHOOSE i \in keep : \A j \in keep : i <= j,
                     CHOOSE i \in keep : \A j \in keep : j <= i)

\* `($event) => ${value}`
LambdaWrapper(value) == <<"($event)", "=>">> \o value

MsgEventHandler(name, value, eventName) ==
  <<"Event handler '">> \o name \o <<"=\"">> \o value
    \o <<"\"' may need :prevent modifier in Aurelia 2. In v1, preventDefault was called automatically, but not in v2. Consider '",
         eventName, ".trigger:prevent' if needed.">>

\* isInsideForm(element): `return true`
isInsideForm(element) == TRUE

\* isPotentiallyProblematicEvent(element, eventName, eventValue)
isPotentiallyProblematicEvent(element, eventName) ==
  \/ /\ eventName = "click" /\ element.tagName = "button"
     /\ \/ \E i \in Idx(element.attrs) :
             /\ element.attrs[i].name = <<"type">>
             /\ \A j \in 1..(i - 1) : element.attrs[j].name # <<"type">>
             /\ element.attrs[i].value = <<"submit">>
        \/ isInsideForm(element)
  \/ eventName = "submit" /\ element.tagName = "form"
  \/ /\ eventName = "click" /\ element.tagName = "a"
     /\ \E i \in Idx(element.attrs) :
          /\ element.attrs[i].name = <<"href">>
          /\ \A j \in 1..(i - 1) : element.attrs[j].name # <<"href">>
          /\ Len(element.attrs[i].value) > 0
          /\ element.attrs[i].value[1] # "javascript:"
  \/ eventName \in {"keydown", "keyup", "keypress"}

\* One recorded edit: `edits++; reporter.edit(file, message)`
TemplateEdit(st, file, message) ==
  [st EXCEPT !.edits = @ + 1,
             !.h = Reporter_edit(@, data, file, message, Undefined, Undefined)]

\* `if (node.tagName === from) { node.tagName = to; ... }`
RenameTag(st, file, e, from, to) ==
  IF st.doc[e].tagName = from
  THEN TemplateEdit([st EXCEPT !.doc[e].tagName = to], file, <<"<", from, "> -> <", to, ">">>)
  ELSE st

\* `if (a.name === 'view') a.name = 'template'; if (a.name === 'view-model') a.name = 'component';`
\* with the mutant that exchanges the two new names
RenameComposeAttrSwapped(a) ==
  IF a.name = <<"view">> THEN [a EXCEPT !.name = <<"component">>]
  ELSE IF a.name = <<"view-model">> THEN [a EXCEPT !.name = <<"template">>]
  ELSE a
RenameComposeAttr(a) ==
  IF a.name = <<"view">> THEN [a EXCEPT !.name = <<"template">>]
  ELSE IF a.name = <<"view-model">> THEN [a EXCEPT !.name = <<"component">>]
  ELSE a

\* `if (node.tagName === 'compose') { ... }`
RenameCompose(st, file, e) ==
  IF st.doc[e].tagName = "compose"
  THEN TemplateEdit([st EXCEPT !.doc[e].tagName = "au-compose",
                               !.doc[e].attrs = [i \in Idx(@) |-> RenameComposeAttr(@[i])]],
                    file, <<"<", "compose", "> -> <", "au-compose", ">">>)
  ELSE st

\* `if (a.name.endsWith('.delegate'))`
AttrDelegate(st, file, e, i) ==
  IF endsWith(st.doc[e].attrs[i].name, ".delegate")
  THEN TemplateEdit([st EXCEPT !.doc[e].attrs[i].name = replaceFirst(@, ".delegate", ".trigger")],
                    file, <<"*.delegate -> *.trigger">>)
  ELSE st

\* `if (a.name === 'view-model.ref')`
AttrViewModelRef(st, file, e, i) ==
  IF st.doc[e].attrs[i].name = <<"view-model", ".ref">>
  THEN TemplateEdit([st EXCEPT !.doc[e].attrs[i].name = <<"component", ".ref">>],
                    file, <<"view-model.ref -> component.ref">>)
  ELSE st

\* `if (a.name.endsWith('.call'))`
AttrCall(st, file, e, i) ==
  IF ~endsWith(st.doc[e].attrs[i].name, ".call") THEN st
  ELSE IF Contains(trim(st.doc[e].attrs[i].value), "=>")
  THEN TemplateEdit([st EXCEPT !.doc[e].attrs[i].name = SubSeq(@, 1, Len(@) - 1) \o <<".bind">>],
                    file, <<"*.call -> *.bind (kept existing arrow function)">>)
  ELSE TemplateEdit([st EXCEPT !.doc[e].attrs[i].name = SubSeq(@, 1, Len(@) - 1) \o <<".bind">>,
                               !.doc[e].attrs[i].value = LambdaWrapper(trim(@))],
                    file, <<"*.call -> *.bind with lambda wrapper">>)

\* `if (a.name.endsWith('.trigger') || a.name.endsWith('.delegate'))`
AttrPrevent(st, file, e, i) ==
  IF /\ \/ endsWith(st.doc[e].attrs[i].name, ".trigger")
        \/ endsWith(st.doc[e].attrs[i].name, ".delegate")
     /\ isPotentiallyProblematicEvent(st.doc[e], st.doc[e].attrs[i].name[1])
  THEN [st EXCEPT !.warnings = @ + 1,
                  !.h = Reporter_warn(@, data, file,
                          MsgEventHandler(st.doc[e].attrs[i].name, st.doc[e].attrs[i].value,
                                          st.doc[e].attrs[i].name[1]))]
  ELSE st

\* One iteration of `for (const a of node.attrs)`.
VisitAttr(st, file, e, i) ==
  AttrPrevent(AttrCall(AttrViewModelRef(AttrDelegate(st, file, e, i), file, e, i), file, e, i),
              file, e, i)

VisitAttrs(st, file, e) ==
  LET f[i \in 0..Len(st.doc[e].attrs)] ==
        IF i = 0 THEN st ELSE VisitAttr(f[i - 1], file, e, i)
  IN f[Len(st.doc[e].attrs)]

\* visit(node) for one element
VisitElement(st, file, e) ==
  VisitAttrs(RenameCompose(RenameTag(RenameTag(st, file, e, "require", "import"),
                                     file, e, "router-view", "au-viewport"),
                           file, e),
             file, e)

\* visit(doc)
visit(doc, file, h0) ==
  LET f[e \in 0..Len(doc)] ==
        IF e = 0 THEN [doc |-> doc, h |-> h0, edits |-> 0, warnings |-> 0]
        ELSE VisitElement(f[e - 1], file, e)
  IN f[Len(doc)]

\* fs.readFileSync(file) parsed: the document of the file on disk
readFileSync(d, k) == d[k].doc

\* fs.writeFileSync(file, serialize(doc)), with the mutant that writes the
\* text over every file
writeFileSyncAll(d, k, doc) == [i \in Idx(d) |-> [d[i] EXCEPT !.doc = doc]]
writeFileSync(d, k, doc) == [d EXCEPT ![k].doc = doc]

\* `edits > 0 && options.write`, with the mutant that counts warnings as well
ShouldWriteFindings(v, write) == (v.edits + v.warnings) > 0 /\ write
ShouldWrite(v, write) == v.edits > 0 /\ write

\* `if (edits > 0 && options.write) fs.writeFileSync(...)`
WriteBack(st, k, v, write) ==
  IF ShouldWrite(v, write)
  THEN [disk |-> writeFileSync(st.disk, k, v.doc), h |-> v.h,
        writes |-> Append(st.writes, st.disk[k].path)]
  ELSE [disk |-> st.disk, h |-> v.h, writes |-> st.writes]

\* The body of `for (const file of files)`.
TemplateFile(st, k, write) ==
  WriteBack(st, k, visit(readFileSync(st.disk, k), st.disk[k].path, st.h), write)

\* transformTemplates(files, reporter, options), files being the files on disk
TemplateFiles(d0, h0, write) ==
  LET f[k \in 0..Len(d0)] ==
        IF k = 0 THEN [disk |-> d0, h |-> h0, writes |-> <<>>]
        ELSE TemplateFile(f[k - 1], k, write)
  IN f[Len(d0)]

transformTemplates ==
  \E write \in BOOLEAN :
    /\ runs < MaxRuns
    /\ disk' = TemplateFiles(disk, heap, write).disk
    /\ heap' = TemplateFiles(disk, heap, write).h
    /\ writes' = TemplateFiles(disk, heap, write).writes
    /\ preDisk' = disk
    /\ optWrite' = write
    /\ mark' = Len(entries)
    /\ lastPass' = "transformTemplates"
    /\ runs' = runs + 1
    /\ UNCHANGED <<data, result, now, calls, callsAtFinish, project, pre, driverVars>>

(***************************************************************************)
(* The template files transformTemplates is run on.                        *)
(***************************************************************************)
Element(tagName, attrs) == [tagName |-> tagName, attrs |-> attrs]

E_template == Element("template", <<>>)
E_require == Element("require", <<Attr(<<"from">>, <<"./comp">>)>>)
E_routerView == Element("router-view", <<>>)
E_compose ==
  Element("compose", <<Attr(<<"view">>, <<"./my-view.html">>),
                       Attr(<<"view-model">>, <<"./my-viewmodel">>),
                       Attr(<<"some-attr">>, <<"value">>)>>)
E_composeEvents ==
  Element("compose", <<Attr(<<"click", ".delegate">>, <<"pick()">>),
                       Attr(<<"view-model">>, <<"./vm">>),
                       Attr(<<"view-model", ".ref">>, <<"vm">>)>>)
E_composeCall ==
  Element("compose", <<Attr(<<"view">>, <<"./v.html">>),
                       Attr(<<"done", ".call">>, <<" ", "finish()", " ">>)>>)
E_button == Element("button", <<Attr(<<"click", ".delegate">>, <<"handleClick()">>)>>)
E_input == Element("input", <<Attr(<<"change", ".delegate">>, <<"handleChange()">>)>>)
E_form == Element("form", <<Attr(<<"submit", ".trigger">>, <<"save()">>)>>)
E_link == Element("a", <<Attr(<<"href">>, <<"/users">>), Attr(<<"click", ".trigger">>, <<"go()">>)>>)
E_scriptLink ==
  Element("a", <<Attr(<<"href">>, <<"javascript:", "void(0)">>),
                 Attr(<<"click", ".trigger">>, <<"go()">>)>>)
E_keydown == Element("input", <<Attr(<<"keydown", ".trigger">>, <<"onKey($event)">>)>>)
E_callArrow == Element("my-list", <<Attr(<<"select", ".call">>, <<"(item)", "=>", "pick(item)">>)>>)
E_div == Element("div", <<Attr(<<"class">>, <<"container">>)>>)

Docs ==
  { <<E_template, E_div>>,
    <<E_template, E_require>>,
    <<E_template, E_routerView>>,
    <<E_template, E_compose>>,
    <<E_template, E_composeEvents>>,
    <<E_template, E_composeCall>>,
    <<E_template, E_button, E_input>>,
    <<E_template, E_form>>,
    <<E_template, E_link, E_scriptLink>>,
    <<E_template, E_keydown, E_div>>,
    <<E_template, E_callArrow>>,
    <<E_template, E_require, E_compose, E_form>> }

TemplateOnDisk(path, doc) == [path |-> path, doc |-> doc]

Disks ==
  { <<TemplateOnDisk("test.html", d)>> : d \in Docs }
  \cup
  { <<TemplateOnDisk("file1.html", d1), TemplateOnDisk("file2.html", d2)>> :
      d1 \in {<<E_template, E_require>>, <<E_template, E_form>>, <<E_template, E_div>>},
      d2 \in {<<E_template, E_compose>>, <<E_template, E_form>>, <<E_template, E_button, E_input>>} }

InitTemplates ==
  /\ InitReporter
  /\ project = <<>>
  /\ pre = <<>>
  /\ mark = 0
  /\ lastPass = "none"
  /\ runs = 0
  /\ disk \in Disks
  /\ preDisk = disk
  /\ writes = <<>>
  /\ optWrite = FALSE
  /\ NoDriver

NextTemplates == transformTemplates

SpecTemplates == InitTemplates /\ [][NextTemplates]_vars

(***************************************************************************)
(* Claims about transformTemplates. They speak of its last run: preDisk is *)
(* the disk it started from, writes the files it wrote.                    *)
(***************************************************************************)
TemplatesRan == lastPass = "transformTemplates"
DiskIdx == 1..Len(preDisk)
ComposeElements(k) == {e \in Idx(preDisk[k].doc) : preDisk[k].doc[e].tagName = "compose"}

\* The attribute of an <au-compose> for an attribute of the <compose>.
ComposeAttr(a) ==
  IF a.name = <<"view">> THEN Attr(<<"template">>, a.value)
  ELSE IF a.name = <<"view-model">> THEN Attr(<<"component">>, a.value)
  ELSE a

\* An attribute rule of the pass applies to the name.
AttributeRuleApplies(name) ==
  \/ endsWith(name, ".delegate")
  \/ endsWith(name, ".call")
  \/ name = <<"view-model", ".ref">>

\* C13 as stated: in a file written by transformTemplates, an element that
\* was <compose> is <au-compose> with as many attributes, each the attribute
\* at the same place with view renamed template, view-model renamed
\* component, and any other name and every value unchanged.
C13_ComposeAttributesVerbatim ==
  (TemplatesRan /\ optWrite) =>
    \A k \in DiskIdx : \A e \in ComposeElements(k) :
      /\ disk[k].doc[e].tagName = "au-compose"
      /\ Len(disk[k].doc[e].attrs) = Len(preDisk[k].doc[e].attrs)
      /\ \A i \in Idx(preDisk[k].doc[e].attrs) :
           disk[k].doc[e].attrs[i] = ComposeAttr(preDisk[k].doc[e].attrs[i])

\* C13 amended: the same, for the attributes that no attribute rule of the
\* pass (*.delegate, view-model.ref, *.call) applies to.
C13_ComposeAttributesKept ==
  (TemplatesRan /\ optWrite) =>
    \A k \in DiskIdx : \A e \in ComposeElements(k) :
      /\ disk[k].doc[e].tagName = "au-compose"
      /\ Len(disk[k].doc[e].attrs) = Len(preDisk[k].doc[e].attrs)
      /\ \A i \in Idx(preDisk[k].doc[e].attrs) :
           ~AttributeRuleApplies(preDisk[k].doc[e].attrs[i].name)
             => disk[k].doc[e].attrs[i] = ComposeAttr(preDisk[k].doc[e].attrs[i])

\* C13 witness: a <compose view view-model some-attr> has been rewritten on disk.
C13_Witness ==
  /\ TemplatesRan /\ optWrite
  /\ \E k \in DiskIdx : \E e \in ComposeElements(k) :
       /\ preDisk[k].doc[e].attrs[1].name = <<"view">>
       /\ preDisk[k].doc[e].attrs[2].name = <<"view-model">>
       /\ Len(preDisk[k].doc[e].attrs) = 3
       /\ disk[k].doc[e].attrs[1].name = <<"template">>

EditsOf(path) ==
  Cardinality({i \in Idx(PassEntries) :
                 PassEntries[i].kind = "edit" /\ PassEntries[i].file = path})
WarnsOf(path) ==
  Cardinality({i \in Idx(PassEntries) :
                 PassEntries[i].kind = "warn" /\ PassEntries[i].file = path})
WritesOf(path) == Cardinality({i \in Idx(writes) : writes[i] = path})

\* C14: in a run of transformTemplates a file is written once if
\* options.write is true and the run logged an edit for it, and is not
\* written otherwise; a file that is not written keeps its content.
C14_WrittenIffWriteAndEdited ==
  TemplatesRan =>
    \A k \in DiskIdx :
      /\ WritesOf(preDisk[k].path) = IF optWrite /\ EditsOf(preDisk[k].path) > 0 THEN 1 ELSE 0
      /\ WritesOf(preDisk[k].path) = 0 => disk[k] = preDisk[k]

\* C14 witness: a run with options.write wrote one file and did not write
\* another file that only produced warnings.
C14_Witness ==
  /\ TemplatesRan /\ optWrite
  /\ \E k, l \in DiskIdx :
       /\ WritesOf(preDisk[k].path) = 1
       /\ WritesOf(preDisk[l].path) = 0 /\ WarnsOf(preDisk[l].path) > 0

\* C15: the entries the last run logged are those a run on the same files
\* with the other value of options.write logs.
C15_LogIndependentOfWrite ==
  TemplatesRan =>
    LET other == TemplateFiles(preDisk, heap, ~optWrite).h[data].entries
    IN SubSeq(other, Len(entries) + 1, Len(other)) = PassEntries

\* C15 witness: a run with options.write over two files wrote the first and
\* logged entries for the second.
C15_Witness ==
  /\ TemplatesRan /\ optWrite
  /\ Len(preDisk) = 2
  /\ WritesOf(preDisk[1].path) = 1
  /\ EditsOf(preDisk[2].path) + WarnsOf(preDisk[2].path) > 0

(***************************************************************************)
(* transform-binding-engine.ts: transformBindingEngine(project, reporter)  *)
(* The loops thread st = [sf, h, touched, helperNeeded].                   *)
(***************************************************************************)
aureliaV1ModulesBE == <<"aurelia-binding", "aurelia-framework">>

Tokens(text) == {text[i] : i \in 1..Len(text)}
TokensOfAll(texts) == UNION {Tokens(texts[i]) : i \in 1..Len(texts)}

\* The identifiers of one node of the tree, by the kind of node.
DecoratorIdentifiers(d) == Tokens(d.qual) \cup Tokens(d.name) \cup TokensOfAll(d.args)
ParamIdentifiers(p) == Tokens(p.name) \cup Tokens(p.typeText)
MemberIdentifiers(m) ==
  Tokens(m.name) \cup Tokens(m.type) \cup Tokens(m.initializer)
    \cup UNION {DecoratorIdentifiers(m.decos[i]) : i \in 1..Len(m.decos)}
ClassIdentifiers(cls) ==
  Tokens(cls.name)
    \cup UNION {DecoratorIdentifiers(cls.decorators[i]) : i \in 1..Len(cls.decorators)}
    \cup UNION {ParamIdentifiers(cls.params[i]) : i \in 1..Len(cls.params)}
    \cup UNION {MemberIdentifiers(cls.members[i]) : i \in 1..Len(cls.members)}
BodyIdentifiers(n) ==
  CASE n.kind = "call" -> {n.obj, n.prop} \cup TokensOfAll(n.args)
    [] n.kind = "string" -> {}
    [] OTHER -> Tokens(n.text)

\* sf.getDescendantsOfKind(SyntaxKind.Identifier) without those under an
\* ImportDeclaration
Identifiers(sf) ==
  UNION {ClassIdentifiers(sf.classes[i]) : i \in 1..Len(sf.classes)}
    \cup UNION {Tokens(sf.vars[i].name) \cup Tokens(sf.vars[i].init) : i \in 1..Len(sf.vars)}
    \cup UNION {BodyIdentifiers(sf.body[i]) : i \in 1..Len(sf.body)}

\* hasNonImportIdentifier(sf, name), with the mutant that looks at the types of
\* constructor parameters only
hasNonImportIdentifierInTypes(sf, name) ==
  \E i \in 1..Len(sf.classes) : \E j \in 1..Len(sf.classes[i].params) :
    \E t \in Tokens(sf.classes[i].params[j].typeText) : <<t>> = name
hasNonImportIdentifier(sf, name) == \E t \in Identifiers(sf) : <<t>> = name

\* The statement addBindingEngineHelper adds: a function declaration, with the
\* identifiers its text uses.
HelperName == <<"createAureliaBindingEngine">>
HelperFunction ==
  [kind |-> "function", name |-> HelperName,
   text |-> <<"createAureliaBindingEngine", "resolve", "IExpressionParser", "IObserverLocator",
              "getCollectionObserver", "Scope", "ExpressionWatcher">>]

\* sf.getFunction('createAureliaBindingEngine')
getFunction(sf, name) ==
  \E i \in 1..Len(sf.body) : sf.body[i].kind = "function" /\ sf.body[i].name = name

\* addBindingEngineHelper(sf)
addBindingEngineHelper(sf) ==
  IF getFunction(sf, HelperName) THEN sf ELSE [sf EXCEPT !.body = Append(@, HelperFunction)]

\* The local names of the named imports of BindingEngine from a legacy module
bindingEngineLocals(sf) ==
  UNION { {LocalName(sf.imports[i].named[k]) :
             k \in {j \in Idx(sf.imports[i].named) : sf.imports[i].named[j].name = <<"BindingEngine">>}} :
          i \in {j \in Idx(sf.imports) : Contains(aureliaV1ModulesBE, sf.imports[j].module)} }

\* typeText.endsWith('.BindingEngine')
EndsWithDotBindingEngine(t) ==
  Len(t) >= 2 /\ t[Len(t) - 1] = "." /\ t[Len(t)] = "BindingEngine"

isBindingEngine(p, locals) ==
  /\ p.typeText # NoType
  /\ \/ p.typeText \in locals
     \/ p.typeText = <<"BindingEngine">>
     \/ EndsWithDotBindingEngine(p.typeText)

MsgNotParameterProperty(name) ==
  <<"BindingEngine parameter '">> \o name \o <<"' is not a parameter property. Manual migration required.">>
MsgAlreadyHasProperty(cn, name) ==
  <<"Class ">> \o cn \o <<" already has a '">> \o name \o <<"' property. Skipped BindingEngine replacement.">>
MsgReplacedInjection(name, cn) ==
  <<"Replaced BindingEngine injection with createAureliaBindingEngine() for '">> \o name
    \o <<"' on class ">> \o cn
MsgRemovedInject(cn) == <<"Removed @inject(BindingEngine) from class ">> \o cn
MsgRemovedFromInject(cn) == <<"Removed BindingEngine from @inject(...) on class ">> \o cn
MsgAddedHelper == <<"Added createAureliaBindingEngine() helper based on Aurelia 2 APIs">>
MsgReferencesRemain == <<"BindingEngine references remain after migration. Manual update required.">>

\* cls.getProperty(name)
getProperty(cls, name) ==
  \E i \in 1..Len(cls.members) :
    cls.members[i].kind = "PropertyDeclaration" /\ cls.members[i].name = name

\* cls.insertProperty(0, {name, scope, isReadonly, initializer}); param.remove()
HelperCall == <<"createAureliaBindingEngine", "(", ")">>
PropertyOfBindingEngine(p) ==
  [kind |-> "PropertyDeclaration", name |-> p.name, scope |-> getScope(p),
   isReadonly |-> p.readonlyKw, type |-> NoType, initializer |-> HelperCall, decos |-> <<>>]
ReplaceInjection(cls, p) ==
  [cls EXCEPT !.members = <<PropertyOfBindingEngine(p)>> \o @,
              !.params = SelectSeq(@, LAMBDA q : q.name # p.name)]

\* One iteration of `for (const param of [...ctor.getParameters()])`.
BEParam(st, path, ci, p, locals) ==
  IF ~isBindingEngine(p, locals) THEN st
  ELSE IF ~isParameterProperty(p)
  THEN [st EXCEPT !.h = Reporter_warn(@, data, path, MsgNotParameterProperty(p.name))]
  ELSE IF getProperty(st.sf.classes[ci], p.name)
  THEN [st EXCEPT !.h = Reporter_warn(@, data, path,
                          MsgAlreadyHasProperty(ClassNameOr(st.sf.classes[ci]), p.name))]
  ELSE [st EXCEPT !.sf.classes[ci] = ReplaceInjection(@, p),
                  !.touched = TRUE,
                  !.helperNeeded = TRUE,
                  !.h = Reporter_edit(@, data, path,
                          MsgReplacedInjection(p.name, ClassNameOr(st.sf.classes[ci])),
                          Undefined, Undefined)]

\* const ctor = cls.getConstructors()[0]; if (!ctor) continue;
\* (the `continue` also skips the decorators of the class)
BEParams(st, path, ci, params, locals) ==
  LET f[i \in 0..Len(params)] ==
        IF i = 0 THEN st ELSE BEParam(f[i - 1], path, ci, params[i], locals)
  IN f[Len(params)]

\* args.filter(a => !bindingEngineLocals.has(a.getText()))
KeptArgs(d, locals) == SelectSeq(d.args, LAMBDA a : a \notin locals)

\* deco.getName() === 'inject', a call, with arguments, some of them BindingEngine
IsInjectOfBindingEngine(d, locals) ==
  /\ d.name = <<"inject">>
  /\ d.call
  /\ Len(d.args) > 0
  /\ Len(KeptArgs(d, locals)) # Len(d.args)

\* One iteration of `for (const deco of cls.getDecorators())`; st.out collects
\* the decorators the class keeps.
BEDecorator(st, path, ci, d, locals) ==
  IF ~IsInjectOfBindingEngine(d, locals) THEN [st EXCEPT !.out = Append(@, d)]
  ELSE IF Len(KeptArgs(d, locals)) = 0
  THEN [st EXCEPT !.touched = TRUE,
                  !.h = Reporter_edit(@, data, path,
                          MsgRemovedInject(ClassNameOr(st.sf.classes[ci])), Undefined, Undefined)]
  ELSE [st EXCEPT !.out = Append(@, [d EXCEPT !.args = KeptArgs(d, locals)]),
                  !.touched = TRUE,
                  !.h = Reporter_edit(@, data, path,
                          MsgRemovedFromInject(ClassNameOr(st.sf.classes[ci])), Undefined, Undefined)]

BEDecorators(st, path, ci, decos, locals) ==
  LET f[i \in 0..Len(decos)] ==
        IF i = 0 THEN [st EXCEPT !.out = <<>>]
        ELSE BEDecorator(f[i - 1], path, ci, decos[i], locals)
  IN [f[Len(decos)] EXCEPT !.sf.classes[ci].decorators = f[Len(decos)].out]

\* One iteration of `for (const cls of sf.getClasses())`.
BEClass(st, path, ci, locals) ==
  IF ~st.sf.classes[ci].hasCtor THEN st
  ELSE BEDecorators(BEParams(st, path, ci, st.sf.classes[ci].params, locals),
                    path, ci, st.sf.classes[ci].decorators, locals)

BEClasses(st, path, locals) ==
  LET c[i \in 0..Len(st.sf.classes)] ==
        IF i = 0 THEN st ELSE BEClass(c[i - 1], path, i, locals)
  IN c[Len(st.sf.classes)]

\* The three ensureImport calls after the helper is added
EnsureHelperImports(sf) ==
  ensureImportDI(
    ensureImportDI(
      ensureImportDI(sf, "aurelia",
                     <<<<"resolve">>, <<"IObserverLocator">>, <<"IExpressionParser">>, <<"Scope">>>>),
      "@aurelia/runtime", <<<<"getCollectionObserver">>>>),
    "@aurelia/runtime-html", <<<<"ExpressionWatcher">>>>)

\* `if (helperNeeded) { ... }`
BEHelper(st, path) ==
  IF st.helperNeeded
  THEN [st EXCEPT !.sf = EnsureHelperImports(addBindingEngineHelper(@)),
                  !.h = Reporter_add(@, data, path, MsgAddedHelper, Undefined),
                  !.touched = TRUE]
  ELSE st

\* for (const mod of aureliaV1Modules) removeNamedImports(sf, mod, new Set(['BindingEngine']))
PruneBindingEngine(sf) ==
  LET r[i \in 0..Len(aureliaV1ModulesBE)] ==
        IF i = 0 THEN sf
        ELSE removeNamedImports(r[i - 1], aureliaV1ModulesBE[i], {<<"BindingEngine">>})
  IN r[Len(aureliaV1ModulesBE)]

\* Array.from(bindingEngineLocals).some(name => hasNonImportIdentifier(sf, name))
Remaining(sf, locals) == \E name \in locals : hasNonImportIdentifier(sf, name)

\* `if (touched) { ... }`
BEPrune(st, path, locals) ==
  IF ~st.touched THEN st
  ELSE IF Remaining(st.sf, locals)
  THEN [st EXCEPT !.h = Reporter_warn(@, data, path, MsgReferencesRemain)]
  ELSE [st EXCEPT !.sf = PruneBindingEngine(@)]

\* The body of `for (const sf of project.getSourceFiles())`.
BEFileWith(sf0, h0, locals) ==
  IF locals = {} THEN [sf |-> sf0, h |-> h0]
  ELSE BEPrune(BEHelper(BEClasses([sf |-> sf0, h |-> h0, touched |-> FALSE,
                                   helperNeeded |-> FALSE, out |-> <<>>],
                                  sf0.path, locals),
                        sf0.path),
               sf0.path, locals)
BEFile(sf0, h0) == BEFileWith(sf0, h0, bindingEngineLocals(sf0))

BEProject(proj, h0) ==
  LET f[i \in 0..Len(proj)] ==
        IF i = 0 THEN [sf |-> <<>>, h |-> h0]
        ELSE [sf |-> Append(f[i - 1].sf, BEFile(proj[i], f[i - 1].h).sf),
              h |-> BEFile(proj[i], f[i - 1].h).h]
  IN f[Len(proj)]

transformBindingEngine ==
  /\ runs < MaxRuns
  /\ project' = BEProject(project, heap).sf
  /\ heap' = BEProject(project, heap).h
  /\ pre' = project
  /\ mark' = Len(entries)
  /\ lastPass' = "transformBindingEngine"
  /\ runs' = runs + 1
  /\ UNCHANGED <<data, result, now, calls, callsAtFinish, templateVars, driverVars>>

(***************************************************************************)
(* The projects transformBindingEngine is run on.                          *)
(***************************************************************************)
T_BindingEngine == <<"BindingEngine">>
T_BE == <<"BE">>
T_fwBindingEngine == <<"fw", ".", "BindingEngine">>

\* A constructor parameter whose type is a class
ClassParam(name, typeText, scopeKw, readonlyKw) ==
  [Param(name, typeText, scopeKw, readonlyKw) EXCEPT !.tkind = "class"]

D_inject(args) == Decorator(NoName, "inject", TRUE, args)

EngineMember ==
  [kind |-> "PropertyDeclaration", name |-> <<"bindingEngine">>, scope |-> Public,
   isReadonly |-> FALSE, type |-> NoType, initializer |-> <<"null">>, decos |-> <<>>]
EngineTypeMember ==
  [kind |-> "PropertyDeclaration", name |-> <<"engineType">>, scope |-> Public,
   isReadonly |-> FALSE, type |-> NoType, initializer |-> T_BindingEngine, decos |-> <<>>]

ClassChoicesBE ==
  { ClassChoice(FALSE, <<>>, TRUE,
                <<ClassParam("bindingEngine", T_BindingEngine, Private, FALSE)>>, <<>>),
    ClassChoice(FALSE, <<D_inject(<<T_BindingEngine>>)>>, TRUE,
                <<ClassParam("bindingEngine", T_BindingEngine, NoName, FALSE)>>, <<>>),
    ClassChoice(FALSE, <<D_inject(<<T_BindingEngine>>)>>, TRUE,
                <<ClassParam("bindingEngine", T_BindingEngine, Private, FALSE)>>, <<>>),
    ClassChoice(FALSE, <<D_inject(<<T_BindingEngine, T_HttpClient>>)>>, TRUE,
                <<ClassParam("be", T_BindingEngine, Protected, TRUE),
                  ClassParam("http", T_HttpClient, Private, FALSE)>>, <<>>),
    ClassChoice(FALSE, <<>>, TRUE,
                <<ClassParam("bindingEngine", T_BindingEngine, Private, FALSE)>>, <<EngineMember>>),
    ClassChoice(FALSE, <<>>, TRUE,
                <<ClassParam("bindingEngine", T_BindingEngine, NoName, TRUE)>>, <<EngineTypeMember>>),
    ClassChoice(FALSE, <<>>, TRUE,
                <<ClassParam("engine", T_fwBindingEngine, Private, FALSE)>>, <<>>),
    ClassChoice(FALSE, <<D_inject(<<T_BE>>)>>, TRUE,
                <<ClassParam("engine", T_BE, Private, FALSE)>>, <<>>),
    ClassChoice(FALSE, <<D_inject(<<T_BindingEngine>>)>>, FALSE, <<>>, <<EngineMember>>),
    ClassChoice(TRUE, <<>>, TRUE,
                <<ClassParam("http", T_HttpClient, Private, FALSE)>>, <<>>),
    ClassChoice(FALSE, <<D_inject(<<T_HttpClient>>)>>, TRUE,
                <<ClassParam("http", T_HttpClient, NoName, FALSE)>>, <<>>) }

ClassListsBE ==
  { <<c>> : c \in ClassChoicesBE }
  \cup { <<ClassChoice(FALSE, <<>>, TRUE,
                       <<ClassParam("bindingEngine", T_BindingEngine, Private, FALSE)>>, <<>>),
           c>> : c \in ClassChoicesBE }

ImportListsBE ==
  { <<Import(1, "aurelia-binding", <<"BindingEngine">>, NoName, NoName)>>,
    <<Import(1, "aurelia-framework", <<"BindingEngine", "inject">>, NoName, NoName)>>,
    <<AliasImport(1, "aurelia-framework", "BindingEngine", "BE")>>,
    <<Import(1, "aurelia-binding", <<"BindingEngine">>, NoName, NoName),
      AliasImport(2, "aurelia-framework", "BindingEngine", "BE")>>,
    <<Import(1, "aurelia-binding", <<"BindingEngine">>, NoName, <<"fw">>),
      Import(2, "aurelia", <<"resolve">>, NoName, NoName)>>,
    <<Import(1, "other-binding", <<"BindingEngine">>, NoName, NoName)>> }

BodiesBE ==
  { <<>>,
    <<Expr(<<"BindingEngine", ".", "name">>)>>,
    <<HelperFunction>> }

ProjectsBE ==
  { <<[MkFile("test.ts", im, <<>>, cs) EXCEPT !.body = b]>> :
      im \in ImportListsBE, cs \in ClassListsBE, b \in BodiesBE }

InitBindingEngine ==
  /\ InitReporter
  /\ project \in ProjectsBE
  /\ pre = project
  /\ mark = 0
  /\ lastPass = "none"
  /\ runs = 0
  /\ NoTemplates
  /\ NoDriver

NextBindingEngine == transformBindingEngine

SpecBindingEngine == InitBindingEngine /\ [][NextBindingEngine]_vars

(***************************************************************************)
(* Claims about transformBindingEngine.                                    *)
(***************************************************************************)
BindingEngineRan == lastPass = "transformBindingEngine"

\* A local name of BindingEngine, as imported before the pass, occurs in the
\* file as it is now, outside the import statements.
OccurrenceRemains(fi) ==
  \E name \in bindingEngineLocals(pre[fi]) :
    \E t \in Identifiers(project[fi]) : <<t>> = name

\* The named imports of the legacy modules of a file, statement by statement.
LegacyNamedOfBE(sf) ==
  SelectSeq([i \in 1..Len(sf.imports) |-> <<sf.imports[i].module, sf.imports[i].named>>],
            LAMBDA x : Contains(aureliaV1ModulesBE, x[1]))

\* C18: after transformBindingEngine, in every file the pass changed: no named
\* import of BindingEngine from a legacy module is left if and only if no local
\* name of BindingEngine occurs outside the import statements; and when one
\* occurs, the named imports of the legacy modules are those the file had and
\* the pass logged exactly one warning for the file that references remain.
C18_ImportPrunedIffNoReference ==
  BindingEngineRan =>
    \A fi \in FileIdx :
      project[fi] # pre[fi] =>
        /\ bindingEngineLocals(project[fi]) = {} <=> ~OccurrenceRemains(fi)
        /\ OccurrenceRemains(fi) =>
             /\ LegacyNamedOfBE(project[fi]) = LegacyNamedOfBE(pre[fi])
             /\ WarnsWith(pre[fi].path, MsgReferencesRemain) = 1
        /\ ~OccurrenceRemains(fi) => WarnsWith(pre[fi].path, MsgReferencesRemain) = 0

\* C18 witnesses: the pass replaced an injection and pruned the import; and the
\* pass removed an @inject decorator while a parameter still names the type,
\* so the import is kept.
C18_Witness ==
  /\ BindingEngineRan
  /\ \E fi \in FileIdx :
       /\ project[fi] # pre[fi]
       /\ OccurrenceRemains(fi)
       /\ Len(project[fi].classes) = 2
       /\ getProperty(project[fi].classes[1], <<"bindingEngine">>)
       /\ Len(project[fi].classes[2].decorators) < Len(pre[fi].classes[2].decorators)
       /\ bindingEngineLocals(project[fi]) # {}

(***************************************************************************)
(* transform-custom-element.ts: transformCustomElement(project, reporter)  *)
(* The class loop threads st = [sf, h, touched, templateExpr,              *)
(* hasInlineView, hasNoView, out]; templateExpr is NoName while it is null.*)
(***************************************************************************)
aureliaV1ModulesCE == <<"aurelia-framework", "aurelia-templating">>

\* The local names under which the named import `name` of one of `modules` is
\* visible, and the namespace imports of those modules
LocalsOf(sf, modules, name) ==
  UNION { {LocalName(sf.imports[i].named[k]) :
             k \in {j \in Idx(sf.imports[i].named) : sf.imports[i].named[j].name = name}} :
          i \in {j \in Idx(sf.imports) : Contains(modules, sf.imports[j].module)} }
NamespacesOf(sf, modules) ==
  {sf.imports[i].ns :
     i \in {j \in Idx(sf.imports) : Contains(modules, sf.imports[j].module) /\ sf.imports[j].ns # NoName}}

inlineViewLocals(sf) == LocalsOf(sf, aureliaV1ModulesCE, <<"inlineView">>)
noViewLocals(sf) == LocalsOf(sf, aureliaV1ModulesCE, <<"noView">>)
customElementLocals(sf) == LocalsOf(sf, aureliaV1ModulesCE \o <<"aurelia">>, <<"customElement">>)
legacyNamespaces(sf) == NamespacesOf(sf, aureliaV1ModulesCE)
customElementNamespaces(sf) == NamespacesOf(sf, aureliaV1ModulesCE \o <<"aurelia">>)

\* getDecoratorMatch(expr, locals, namespaces, name) is not null; whether the
\* match is a call is d.call
getDecoratorMatch(d, locals, namespaces, name) ==
  \/ d.qual = NoName /\ d.name \in locals
  \/ d.qual # NoName /\ d.name = name /\ d.qual \in namespaces

\* The texts the pass builds and the tests it makes on an argument
isObjectLiteral(arg) == Len(arg) >= 2 /\ arg[1] = "{" /\ arg[Len(arg)] = "}"
hasTemplateProperty(arg) ==
  \E i \in 2..Len(arg) : arg[i] = "template" /\ arg[i - 1] \in {"{", ","}
ObjTemplate(t) == <<"{", "template", ":">> \o t \o <<"}">>
ObjNameTemplate(n, t) == <<"{", "name", ":">> \o n \o <<",", "template", ":">> \o t \o <<"}">>
\* obj.addPropertyAssignment({ name: 'template', initializer: templateExpr })
addTemplateProperty(arg, t) ==
  SubSeq(arg, 1, Len(arg) - 1)
    \o (IF Len(arg) = 2 THEN <<>> ELSE <<",">>)
    \o <<"template", ":">> \o t \o <<"}">>

\* d.getExpression().getText() of a decorator that is not a call, or of the
\* callee of one that is
CalleeText(d) == IF d.qual = NoName THEN d.name ELSE d.qual \o <<".">> \o d.name

MsgInlineNoArgument(cn) ==
  <<"@inlineView on class ">> \o cn \o <<" has no template argument. Manual migration required.">>
MsgInlineExtra(cn) ==
  <<"@inlineView on class ">> \o cn \o <<" has extra arguments. Dependencies need manual migration.">>
MsgInlineNotCall(cn) ==
  <<"@inlineView on class ">> \o cn \o <<" is not a call expression. Manual migration required.">>
MsgRemovedInlineView(cn) == <<"Removed @inlineView from class ">> \o cn
MsgRemovedNoView(cn) == <<"Removed @noView from class ">> \o cn
MsgUpdatedCustomElement(cn) == <<"Updated @customElement on class ">> \o cn \o <<" to include template">>
MsgAlreadyHasTemplate(cn) ==
  <<"@customElement on class ">> \o cn \o <<" already has a template. Verify inlineView/noView migration.">>
MsgAddedTemplate(cn) == <<"Added template to @customElement on class ">> \o cn
MsgConvertedCustomElement(nameArg, cn) ==
  <<"Converted @customElement('">> \o nameArg \o <<"') to object form with template on class ">> \o cn
MsgUnexpectedArguments(cn) ==
  <<"@customElement on class ">> \o cn \o <<" has unexpected arguments. Manual migration required.">>
MsgAddedCustomElement(cn) == <<"Added @customElement with template to class ">> \o cn

\* `if (args.length === 0) { warn; continue }`
InlineSkipped(d) == Len(d.args) = 0

\* `if (inlineMatch) { ... }` of one decorator, up to its `continue`s
CEInline(st, path, cn, d) ==
  IF ~d.call
  THEN [st EXCEPT !.hasInlineView = TRUE,
                  !.out = Append(@, d),
                  !.h = Reporter_warn(@, data, path, MsgInlineNotCall(cn))]
  ELSE IF InlineSkipped(d)
  THEN [st EXCEPT !.hasInlineView = TRUE,
                  !.out = Append(@, d),
                  !.h = Reporter_warn(@, data, path, MsgInlineNoArgument(cn))]
  ELSE [st EXCEPT !.hasInlineView = TRUE,
                  !.templateExpr = d.args[1],
                  !.touched = TRUE,
                  !.h = Reporter_edit(
                          IF Len(d.args) > 1
                          THEN Reporter_warn(@, data, path, MsgInlineExtra(cn))
                          ELSE @,
                          data, path, MsgRemovedInlineView(cn), Undefined, Undefined)]

\* `if (noViewMatch) { ... }`
CENoView(st, path, cn) ==
  [st EXCEPT !.hasNoView = TRUE,
             !.templateExpr = <<"null">>,
             !.touched = TRUE,
             !.h = Reporter_edit(@, data, path, MsgRemovedNoView(cn), Undefined, Undefined)]

\* One iteration of `for (const deco of decorators)`.
CEDecorator(st, path, cn, d, sf0) ==
  IF getDecoratorMatch(d, inlineViewLocals(sf0), legacyNamespaces(sf0), <<"inlineView">>)
  THEN CEInline(st, path, cn, d)
  ELSE IF getDecoratorMatch(d, noViewLocals(sf0), legacyNamespaces(sf0), <<"noView">>)
  THEN CENoView(st, path, cn)
  ELSE [st EXCEPT !.out = Append(@, d)]

CEDecorators(st, path, ci, sf0) ==
  LET decos == st.sf.classes[ci].decorators
      f[i \in 0..Len(decos)] ==
        IF i = 0
        THEN [st EXCEPT !.out = <<>>, !.templateExpr = NoName,
                        !.hasInlineView = FALSE, !.hasNoView = FALSE]
        ELSE CEDecorator(f[i - 1], path, ClassNameOr(st.sf.classes[ci]), decos[i], sf0)
  IN [f[Len(decos)] EXCEPT !.sf.classes[ci].decorators = f[Len(decos)].out]

\* cls.getDecorators().find(d => !!getDecoratorMatch(d.getExpression(), customElementLocals, ...)):
\* its index, 0 when there is none
FindCustomElement(cls, sf0) ==
  LET hit(i) == getDecoratorMatch(cls.decorators[i], customElementLocals(sf0),
                                  customElementNamespaces(sf0), <<"customElement">>)
  IN IF \E i \in Idx(cls.decorators) : hit(i)
     THEN CHOOSE i \in Idx(cls.decorators) : hit(i) /\ \A j \in 1..(i - 1) : ~hit(j)
     ELSE 0

\* `if (Node.isCallExpression(expr)) { ... }`: the sibling is a call
CEMergeCall(st, path, ci, k, t) ==
  LET d == st.sf.classes[ci].decorators[k]
      cn == ClassNameOr(st.sf.classes[ci])
  IN
  IF Len(d.args) = 0
  THEN [st EXCEPT !.sf.classes[ci].decorators[k].args = <<ObjTemplate(t)>>,
                  !.touched = TRUE,
                  !.h = Reporter_edit(@, data, path, MsgUpdatedCustomElement(cn), Undefined, Undefined)]
  ELSE IF Len(d.args) = 1 /\ isObjectLiteral(d.args[1])
  THEN IF hasTemplateProperty(d.args[1])
       THEN [st EXCEPT !.h = Reporter_warn(@, data, path, MsgAlreadyHasTemplate(cn))]
       ELSE [st EXCEPT !.sf.classes[ci].decorators[k].args = <<addTemplateProperty(d.args[1], t)>>,
                       !.touched = TRUE,
                       !.h = Reporter_edit(@, data, path, MsgAddedTemplate(cn), Undefined, Undefined)]
  ELSE IF Len(d.args) = 1
  THEN [st EXCEPT !.sf.classes[ci].decorators[k].args = <<ObjNameTemplate(d.args[1], t)>>,
                  !.touched = TRUE,
                  !.h = Reporter_edit(@, data, path, MsgConvertedCustomElement(d.args[1], cn),
                                      Undefined, Undefined)]
  ELSE [st EXCEPT !.h = Reporter_warn(@, data, path, MsgUnexpectedArguments(cn))]

\* customDeco.replaceWithText(`${customDeco.getExpression().getText()}({ template: ... })`):
\* the text that replaces the decorator, "@" included, has no "@": what was
\* the decorator is now an expression statement in front of the class
CEMergeBare(st, path, ci, k, t) ==
  [st EXCEPT !.sf.classes[ci].decorators = RemoveAt(@, k),
             !.sf.body = Append(@, [kind |-> "expr",
                                    text |-> CalleeText(st.sf.classes[ci].decorators[k])
                                               \o <<"(">> \o ObjTemplate(t) \o <<")">>]),
             !.touched = TRUE,
             !.h = Reporter_edit(@, data, path,
                                 MsgUpdatedCustomElement(ClassNameOr(st.sf.classes[ci])),
                                 Undefined, Undefined)]

\* cls.addDecorator({ name: 'customElement', arguments: [`{ template: ... }`] })
CEAddDecorator(st, path, ci, t) ==
  [st EXCEPT !.sf.classes[ci].decorators =
               Append(@, [qual |-> NoName, name |-> <<"customElement">>, call |-> TRUE,
                          args |-> <<ObjTemplate(t)>>, path |-> <<"ClassDeclaration">>]),
             !.touched = TRUE,
             !.h = Reporter_add(@, data, path,
                                MsgAddedCustomElement(ClassNameOr(st.sf.classes[ci])), Undefined)]

\* From `if (!hasInlineView && !hasNoView) continue` to the end of the class
CEMerge(st, path, ci, sf0) ==
  IF ~st.hasInlineView /\ ~st.hasNoView THEN st
  ELSE IF st.templateExpr = NoName THEN st
  ELSE IF FindCustomElement(st.sf.classes[ci], sf0) = 0
  THEN CEAddDecorator(st, path, ci, st.templateExpr)
  ELSE IF st.sf.classes[ci].decorators[FindCustomElement(st.sf.classes[ci], sf0)].call
  THEN CEMergeCall(st, path, ci, FindCustomElement(st.sf.classes[ci], sf0), st.templateExpr)
  ELSE CEMergeBare(st, path, ci, FindCustomElement(st.sf.classes[ci], sf0), st.templateExpr)

\* One iteration of `for (const cls of sf.getClasses())`.
CEClass(st, path, ci, sf0) ==
  IF Len(st.sf.classes[ci].decorators) = 0 THEN st
  ELSE CEMerge(CEDecorators(st, path, ci, sf0), path, ci, sf0)

CEClasses(sf0, h0) ==
  LET c[i \in 0..Len(sf0.classes)] ==
        IF i = 0 THEN [sf |-> sf0, h |-> h0, touched |-> FALSE, templateExpr |-> NoName,
                       hasInlineView |-> FALSE, hasNoView |-> FALSE, out |-> <<>>]
        ELSE CEClass(c[i - 1], sf0.path, i, sf0)
  IN c[Len(sf0.classes)]

\* `if (touched) { removeNamedImports(...) per legacy module; ensureImport(sf, 'aurelia', ['customElement']) }`
CERemoveLegacyNames(sf) ==
  LET r[i \in 0..Len(aureliaV1ModulesCE)] ==
        IF i = 0 THEN sf
        ELSE removeNamedImports(r[i - 1], aureliaV1ModulesCE[i],
                                {<<"inlineView">>, <<"noView">>, <<"customElement">>})
  IN r[Len(aureliaV1ModulesCE)]
CECleanup(st) ==
  IF st.touched
  THEN [st EXCEPT !.sf = ensureImportDI(CERemoveLegacyNames(@), "aurelia", <<<<"customElement">>>>)]
  ELSE st

\* `if (inlineViewLocals.size === 0 && noViewLocals.size === 0 && ...) continue`
HasViewImports(sf) ==
  inlineViewLocals(sf) # {} \/ noViewLocals(sf) # {} \/ legacyNamespaces(sf) # {}

\* The body of `for (const sf of project.getSourceFiles())`.
CEFile(sf0, h0) ==
  IF ~HasViewImports(sf0) THEN [sf |-> sf0, h |-> h0]
  ELSE CECleanup(CEClasses(sf0, h0))

CEProject(proj, h0) ==
  LET f[i \in 0..Len(proj)] ==
        IF i = 0 THEN [sf |-> <<>>, h |-> h0]
        ELSE [sf |-> Append(f[i - 1].sf, CEFile(proj[i], f[i - 1].h).sf),
              h |-> CEFile(proj[i], f[i - 1].h).h]
  IN f[Len(proj)]

transformCustomElement ==
  /\ runs < MaxRuns
  /\ project' = CEProject(project, heap).sf
  /\ heap' = CEProject(project, heap).h
  /\ pre' = project
  /\ mark' = Len(entries)
  /\ lastPass' = "transformCustomElement"
  /\ runs' = runs + 1
  /\ UNCHANGED <<data, result, now, calls, callsAtFinish, templateVars, driverVars>>

(***************************************************************************)
(* The projects transformCustomElement is run on.                          *)
(***************************************************************************)
Template1 == <<"'<template><div>Hello</div></template>'">>
Deps1 == <<"[", "'./dep'", "]">>

D_inlineView(args) == Decorator(NoName, "inlineView", TRUE, args)
D_inlineViewBare == Decorator(NoName, "inlineView", FALSE, <<>>)
D_noView == Decorator(NoName, "noView", TRUE, <<>>)
D_noViewBare == Decorator(NoName, "noView", FALSE, <<>>)
D_customElementOf(args) == Decorator(NoName, "customElement", TRUE, args)
D_customElementBare == Decorator(NoName, "customElement", FALSE, <<>>)
D_bindable == Decorator(NoName, "bindable", FALSE, <<>>)

ObjName == <<"{", "name", ":", "'my-el'", "}">>
ObjWithTemplate == <<"{", "name", ":", "'my-el'", ",", "template", ":", "'<old></old>'", "}">>

\* The view decorators and the sibling decorators a class may carry
ViewDecorators ==
  { D_inlineView(<<Template1>>), D_inlineView(<<>>), D_inlineView(<<Template1, Deps1>>),
    D_inlineViewBare, D_noView, D_noViewBare }
SiblingDecorators ==
  { <<>>,
    <<D_customElement>>,
    <<D_customElementOf(<<>>)>>,
    <<D_customElementOf(<<ObjName>>)>>,
    <<D_customElementOf(<<<<"{", "}">>>>)>>,
    <<D_customElementOf(<<ObjWithTemplate>>)>>,
    <<D_customElementOf(<<<<"'my-el'">>, <<"extra">>>>)>>,
    <<D_customElementBare>>,
    <<D_bindable>> }

DecoratorListsCE ==
  { s \o <<v>> : s \in SiblingDecorators, v \in ViewDecorators }
  \cup { <<D_inlineView(<<Template1>>), D_customElement>>,
         <<D_noView, D_inlineView(<<Template1>>)>>,
         <<D_inlineView(<<>>), D_noView, D_customElement>>,
         <<Decorator(<<"au">>, "customElement", TRUE, <<<<"'my-el'">>>>),
           Decorator(<<"au">>, "inlineView", TRUE, <<Template1>>)>>,
         <<Decorator(<<"au">>, "noView", FALSE, <<>>)>>,
         <<D_customElement>>,
         <<>> }

ClassChoicesCE == { ClassChoice(FALSE, ds, FALSE, <<>>, <<>>) : ds \in DecoratorListsCE }

ClassListsCE ==
  { <<c>> : c \in ClassChoicesCE }
  \cup { <<ClassChoice(FALSE, <<D_customElement, D_inlineView(<<Template1>>)>>, FALSE, <<>>, <<>>),
           ClassChoice(TRUE, ds, FALSE, <<>>, <<>>)>> :
           ds \in { <<D_inlineView(<<>>)>>, <<D_noView>>, <<D_customElement>>,
                    <<D_customElementBare, D_inlineView(<<Template1>>)>> } }

ImportListsCE ==
  { <<Import(1, "aurelia-framework", <<"inlineView", "customElement">>, NoName, NoName)>>,
    <<Import(1, "aurelia-framework", <<"noView">>, NoName, NoName)>>,
    <<Import(1, "aurelia-framework", <<"inlineView", "noView", "customElement", "bindable">>,
             NoName, NoName)>>,
    <<Import(1, "aurelia-templating", <<"inlineView", "noView">>, NoName, NoName),
      Import(2, "aurelia", <<"customElement">>, NoName, NoName)>>,
    <<Import(1, "aurelia-framework", <<>>, NoName, <<"au">>)>>,
    <<Import(1, "aurelia-framework", <<"customElement">>, NoName, NoName)>> }

ProjectsCE ==
  { <<MkFile("test.ts", im, <<>>, cs)>> : im \in ImportListsCE, cs \in ClassListsCE }

InitCustomElement ==
  /\ InitReporter
  /\ project \in ProjectsCE
  /\ pre = project
  /\ mark = 0
  /\ lastPass = "none"
  /\ runs = 0
  /\ NoTemplates
  /\ NoDriver

NextCustomElement == transformCustomElement

SpecCustomElement == InitCustomElement /\ [][NextCustomElement]_vars

(***************************************************************************)
(* Claims about transformCustomElement.                                    *)
(***************************************************************************)
CustomElementRan == lastPass = "transformCustomElement"

\* The decorators of a class that the pass takes for @inlineView, for @noView
\* and for @customElement, by the imports of the file.
InlineViewsOf(cls, sf) ==
  {i \in Idx(cls.decorators) :
     getDecoratorMatch(cls.decorators[i], inlineViewLocals(sf), legacyNamespaces(sf), <<"inlineView">>)}
NoViewsOf(cls, sf) ==
  {i \in Idx(cls.decorators) :
     getDecoratorMatch(cls.decorators[i], noViewLocals(sf), legacyNamespaces(sf), <<"noView">>)}
CustomElementsOf(cls, sf) ==
  SelectSeq(cls.decorators,
            LAMBDA d : getDecoratorMatch(d, customElementLocals(sf), customElementNamespaces(sf),
                                         <<"customElement">>))

\* A class whose one view decorator is a call of @inlineView with no argument
\* or with several: the index of that decorator.
OddInlineViews(cls, sf) ==
  {i \in InlineViewsOf(cls, sf) :
     /\ cls.decorators[i].call
     /\ Len(cls.decorators[i].args) # 1
     /\ InlineViewsOf(cls, sf) = {i}
     /\ NoViewsOf(cls, sf) = {}}

InlineWarns(path, cn) ==
  WarnsWith(path, MsgInlineNoArgument(cn)) + WarnsWith(path, MsgInlineExtra(cn))

\* C19: after transformCustomElement, a class whose only view decorator was a
\* call of @inlineView with zero or with several arguments still has that
\* decorator, has the @customElement decorators it had and no other, and the
\* file has a warning about @inlineView on that class.
C19_OddInlineViewSkipped ==
  CustomElementRan =>
    \A fi \in FileIdx : \A ci \in ClassIdx(fi) :
      \A i \in OddInlineViews(pre[fi].classes[ci], pre[fi]) :
        /\ Contains(project[fi].classes[ci].decorators, pre[fi].classes[ci].decorators[i])
        /\ SelectSeq(project[fi].classes[ci].decorators, LAMBDA d : d.name = <<"customElement">>)
             = SelectSeq(pre[fi].classes[ci].decorators, LAMBDA d : d.name = <<"customElement">>)
        /\ InlineWarns(pre[fi].path, ClassNameOr(pre[fi].classes[ci])) >= 1

\* A class from which the pass extracts one template: its one view decorator
\* is a call of @inlineView with one argument, or is @noView.
ExtractsTemplate(cls, sf) ==
  /\ Cardinality(InlineViewsOf(cls, sf) \cup NoViewsOf(cls, sf)) = 1
  /\ \A i \in InlineViewsOf(cls, sf) : cls.decorators[i].call /\ Len(cls.decorators[i].args) = 1
ExtractedTemplate(cls, sf) ==
  IF NoViewsOf(cls, sf) # {} THEN <<"null">>
  ELSE cls.decorators[CHOOSE i \in InlineViewsOf(cls, sf) : TRUE].args[1]

\* What the claim makes of the sibling decorator d given the template t.
MergedSibling(d, t) ==
  IF ~d.call \/ Len(d.args) = 0
  THEN [d EXCEPT !.call = TRUE, !.args = <<ObjTemplate(t)>>]
  ELSE IF Len(d.args) = 1 /\ isObjectLiteral(d.args[1]) /\ ~hasTemplateProperty(d.args[1])
  THEN [d EXCEPT !.args = <<SubSeq(d.args[1], 1, Len(d.args[1]) - 1)
                             \o (IF Len(d.args[1]) = 2 THEN <<>> ELSE <<",">>)
                             \o <<"template", ":">> \o t \o <<"}">>>>]
  ELSE IF Len(d.args) = 1 /\ ~isObjectLiteral(d.args[1])
  THEN [d EXCEPT !.args = <<<<"{", "name", ":">> \o d.args[1] \o <<",", "template", ":">> \o t \o <<"}">>>>]
  ELSE d

\* The decorators the claim gives the class: the view decorator gone, the first
\* @customElement merged with the template, or a new one at the end.
DecoratorsWithoutView(cls, sf) ==
  SelectSeq(cls.decorators,
            LAMBDA d : /\ ~getDecoratorMatch(d, inlineViewLocals(sf), legacyNamespaces(sf), <<"inlineView">>)
                       /\ ~getDecoratorMatch(d, noViewLocals(sf), legacyNamespaces(sf), <<"noView">>))
IsCustomElementIn(d, sf) ==
  getDecoratorMatch(d, customElementLocals(sf), customElementNamespaces(sf), <<"customElement">>)
MergedDecorators(cls, sf) ==
  LET ds == DecoratorsWithoutView(cls, sf)
      t == ExtractedTemplate(cls, sf)
      first(i) == IsCustomElementIn(ds[i], sf) /\ \A j \in 1..(i - 1) : ~IsCustomElementIn(ds[j], sf)
  IN IF \E i \in Idx(ds) : IsCustomElementIn(ds[i], sf)
     THEN [i \in Idx(ds) |-> IF first(i) THEN MergedSibling(ds[i], t) ELSE ds[i]]
     ELSE Append(ds, [qual |-> NoName, name |-> <<"customElement">>, call |-> TRUE,
                      args |-> <<ObjTemplate(t)>>, path |-> <<"ClassDeclaration">>])
SiblingHasTemplate(cls, sf) ==
  /\ Len(CustomElementsOf(cls, sf)) > 0
  /\ CustomElementsOf(cls, sf)[1].call
  /\ Len(CustomElementsOf(cls, sf)[1].args) = 1
  /\ isObjectLiteral(CustomElementsOf(cls, sf)[1].args[1])
  /\ hasTemplateProperty(CustomElementsOf(cls, sf)[1].args[1])

\* C20: after transformCustomElement, a class from which one template T was
\* extracted (T is null for @noView) has its other decorators as before with
\* the first @customElement merged by the shape of its argument: an object
\* literal without `template` gains `template: T`; one with `template` is as
\* it was and the file has a warning; one other argument N becomes
\* { name: N, template: T }; no arguments, or no call, becomes a call with
\* { template: T }; and without a sibling a new @customElement({ template: T })
\* is the last decorator.
C20_MergedBySiblingShape ==
  CustomElementRan =>
    \A fi \in FileIdx : \A ci \in ClassIdx(fi) :
      ExtractsTemplate(pre[fi].classes[ci], pre[fi]) =>
        /\ project[fi].classes[ci].decorators = MergedDecorators(pre[fi].classes[ci], pre[fi])
        /\ SiblingHasTemplate(pre[fi].classes[ci], pre[fi]) =>
             WarnsWith(pre[fi].path, MsgAlreadyHasTemplate(ClassNameOr(pre[fi].classes[ci]))) >= 1

(***************************************************************************)
(* transform-lifecycle.ts: transformLifecycle(project, reporter)           *)
(* A method is a member of kind "MethodDeclaration"; `type` is the text of *)
(* its return type node and `async` its async modifier.                    *)
(***************************************************************************)
\* lifecycleMethodRenames: has(methodName), get(methodName)
lifecycleMethodRenames(name) == IF name = <<"unbind">> THEN <<"unbinding">> ELSE NoName

aureliaV1LifecycleMethods ==
  { <<"attached">>, <<"detached">>, <<"bind">>, <<"unbind">>, <<"activate">>, <<"deactivate">>,
    <<"canActivate">>, <<"canDeactivate">>, <<"created">>, <<"beforeBind">>, <<"afterBind">>,
    <<"beforeUnbind">>, <<"afterUnbind">> }

routerLifecycleMethods ==
  { <<"canActivate">>, <<"activate">>, <<"canDeactivate">>, <<"deactivate">> }

isMethod(m) == m.kind = "MethodDeclaration"
isAsync(m) == "async" \in DOMAIN m /\ m.async

\* cls.getMethods().map(m => m.getName())
methodNames(cls) ==
  LET ms == SelectSeq(cls.members, isMethod) IN [i \in 1..Len(ms) |-> ms[i].name]

\* names.join(', ')
JoinNames(names) ==
  LET f[i \in 0..Len(names)] ==
        IF i = 0 THEN <<>>
        ELSE IF i = 1 THEN names[1]
        ELSE f[i - 1] \o <<", ">> \o names[i]
  IN f[Len(names)]

MsgRenamed(methodName, newName, cn) ==
  <<"Renamed lifecycle method '">> \o methodName \o <<"()' to '">> \o newName
    \o <<"()' in class ">> \o cn
MsgReturnsPromise(methodName, cn) ==
  <<"Lifecycle method '">> \o methodName \o <<"()' in class ">> \o cn
    \o <<" returns Promise but is not async. Aurelia 2 has native async support - consider making it async.">>
MsgAttachedNoDetached(cn) ==
  <<"Class ">> \o cn
    \o <<" has attached() but no detached(). Consider if cleanup is needed in detached() for Aurelia 2.">>
MsgBindNoUnbind(cn) ==
  <<"Class ">> \o cn \o <<" has bind() but no unbind()/unbinding(). Consider if cleanup is needed.">>
MsgRouterMethods(cn, names) ==
  <<"Class ">> \o cn \o <<" uses router lifecycle methods (">> \o JoinNames(names)
    \o <<"). These work differently in Aurelia 2's new router - review router migration guide.">>
MsgBindAndAttached(cn) ==
  <<"Class ">> \o cn
    \o <<" has both bind() and attached(). In Aurelia 2, the lifecycle order is more predictable: binding -> bound -> attaching -> attached.">>

\* method.rename(newName), with the mutant that leaves the method as it is
renameMethodNot(m, newName) == m
renameMethod(m, newName) == [m EXCEPT !.name = newName]

\* method.rename(newName) renames the references to the method with it: the
\* accesses `this.name` in the bodies of the members of the class.
renameInBody(body, name, newName) ==
  [i \in 1..Len(body) |->
     IF i > 2 /\ body[i - 2] = "this" /\ body[i - 1] = "." /\ <<body[i]>> = name
     THEN newName[1] ELSE body[i]]
renameReferences(members, name, newName) ==
  [i \in 1..Len(members) |->
     IF "body" \in DOMAIN members[i]
     THEN [members[i] EXCEPT !.body = renameInBody(@, name, newName)]
     ELSE members[i]]

\* `if (lifecycleMethodRenames.has(methodName)) { ... }`
LCRename(st, path, ci, mi) ==
  IF lifecycleMethodRenames(st.sf.classes[ci].members[mi].name) = NoName THEN st
  ELSE [st EXCEPT !.sf.classes[ci].members =
                     renameReferences(
                       [@ EXCEPT ![mi] = renameMethod(@, lifecycleMethodRenames(
                                                            st.sf.classes[ci].members[mi].name))],
                       st.sf.classes[ci].members[mi].name,
                       lifecycleMethodRenames(st.sf.classes[ci].members[mi].name)),
                  !.hasAureliaLifecycle = TRUE,
                  !.h = Reporter_edit(@, data, path,
                          MsgRenamed(st.sf.classes[ci].members[mi].name,
                                     lifecycleMethodRenames(st.sf.classes[ci].members[mi].name),
                                     ClassNameOr(st.sf.classes[ci])),
                          st.sf.classes[ci].members[mi].name \o <<"()">>,
                          lifecycleMethodRenames(st.sf.classes[ci].members[mi].name) \o <<"()">>)]

\* `if (aureliaV1LifecycleMethods.includes(methodName)) { ... }`, for the
\* method m as it was when the iteration began
LCKnown(st, path, ci, m) ==
  IF m.name \notin aureliaV1LifecycleMethods THEN st
  ELSE IF ~isAsync(m) /\ Contains(m.type, "Promise")
  THEN [st EXCEPT !.hasAureliaLifecycle = TRUE,
                  !.h = Reporter_warn(@, data, path,
                                      MsgReturnsPromise(m.name, ClassNameOr(st.sf.classes[ci])))]
  ELSE [st EXCEPT !.hasAureliaLifecycle = TRUE]

\* One iteration of `for (const method of cls.getMethods())`.
LCMethod(st, path, ci, mi) ==
  IF ~isMethod(st.sf.classes[ci].members[mi]) THEN st
  ELSE LCKnown(LCRename(st, path, ci, mi), path, ci, st.sf.classes[ci].members[mi])

\* analyzeLifecyclePatterns(cls, reporter, filePath, className), pattern by pattern
LCAttached(h, path, cn, names) ==
  IF Contains(names, <<"attached">>) /\ ~Contains(names, <<"detached">>)
  THEN Reporter_warn(h, data, path, MsgAttachedNoDetached(cn)) ELSE h
LCBind(h, path, cn, names) ==
  IF Contains(names, <<"bind">>) /\ ~Contains(names, <<"unbind">>) /\ ~Contains(names, <<"unbinding">>)
  THEN Reporter_warn(h, data, path, MsgBindNoUnbind(cn)) ELSE h
LCRouter(h, path, cn, names) ==
  IF Len(SelectSeq(names, LAMBDA n : n \in routerLifecycleMethods)) > 0
  THEN Reporter_warn(h, data, path,
                     MsgRouterMethods(cn, SelectSeq(names, LAMBDA n : n \in routerLifecycleMethods)))
  ELSE h
LCTiming(h, path, cn, names) ==
  IF Contains(names, <<"attached">>) /\ Contains(names, <<"bind">>)
  THEN Reporter_note(h, data, path, MsgBindAndAttached(cn)) ELSE h
analyzeLifecyclePatterns(cls, h, path, cn) ==
  LCTiming(LCRouter(LCBind(LCAttached(h, path, cn, methodNames(cls)),
                           path, cn, methodNames(cls)),
                    path, cn, methodNames(cls)),
           path, cn, methodNames(cls))

\* `if (hasAureliaLifecycle) analyzeLifecyclePatterns(...)`
LCAnalyze(st, path, ci) ==
  IF st.hasAureliaLifecycle
  THEN [st EXCEPT !.h = analyzeLifecyclePatterns(st.sf.classes[ci], @, path,
                                                 ClassNameOr(st.sf.classes[ci]))]
  ELSE st

\* One iteration of `for (const cls of sf.getClasses())`.
LCClass(st, path, ci) ==
  LET f[i \in 0..Len(st.sf.classes[ci].members)] ==
        IF i = 0 THEN [st EXCEPT !.hasAureliaLifecycle = FALSE]
        ELSE LCMethod(f[i - 1], path, ci, i)
  IN LCAnalyze(f[Len(st.sf.classes[ci].members)], path, ci)

\* The body of `for (const sf of project.getSourceFiles())`.
LCFile(sf0, h0) ==
  LET c[i \in 0..Len(sf0.classes)] ==
        IF i = 0 THEN [sf |-> sf0, h |-> h0, hasAureliaLifecycle |-> FALSE]
        ELSE LCClass(c[i - 1], sf0.path, i)
  IN c[Len(sf0.classes)]

LCProject(proj, h0) ==
  LET f[i \in 0..Len(proj)] ==
        IF i = 0 THEN [sf |-> <<>>, h |-> h0]
        ELSE [sf |-> Append(f[i - 1].sf, LCFile(proj[i], f[i - 1].h).sf),
              h |-> LCFile(proj[i], f[i - 1].h).h]
  IN f[Len(proj)]

transformLifecycle ==
  /\ runs < MaxRuns
  /\ project' = LCProject(project, heap).sf
  /\ heap' = LCProject(project, heap).h
  /\ pre' = project
  /\ mark' = Len(entries)
  /\ lastPass' = "transformLifecycle"
  /\ runs' = runs + 1
  /\ UNCHANGED <<data, result, now, calls, callsAtFinish, templateVars, driverVars>>

\* The classes transformLifecycle is run on.
Method(name, returnType, async) ==
  [kind |-> "MethodDeclaration", name |-> <<name>>, scope |-> Public, isReadonly |-> FALSE,
   type |-> returnType, initializer |-> NoName, decos |-> <<>>, async |-> async]
T_PromiseVoid == <<"Promise", "<", "void", ">">>

MethodListsLC ==
  { <<>>,
    <<Method("unbind", NoType, FALSE)>>,
    <<Method("bind", NoType, FALSE), Method("unbind", NoType, FALSE)>>,
    <<Method("bind", NoType, FALSE), Method("attached", T_PromiseVoid, FALSE)>>,
    <<Method("attached", T_PromiseVoid, TRUE), Method("detached", NoType, FALSE)>>,
    <<Method("unbind", T_PromiseVoid, FALSE), Method("unbinding", NoType, FALSE)>>,
    <<Method("canActivate", NoType, FALSE), Method("activate", T_PromiseVoid, FALSE),
      Method("unbind", NoType, FALSE)>>,
    <<Method("save", NoType, FALSE)>>,
    <<ExistingMember, Method("unbind", NoType, FALSE)>> }

ClassListsLC ==
  { <<ClassChoice(a, <<>>, FALSE, <<>>, ms)>> : a \in BOOLEAN, ms \in MethodListsLC }
  \cup { <<ClassChoice(FALSE, <<>>, FALSE, <<>>, m1), ClassChoice(FALSE, <<>>, FALSE, <<>>, m2)>> :
           m1 \in {<<Method("unbind", NoType, FALSE)>>, <<Method("save", NoType, FALSE)>>},
           m2 \in MethodListsLC }

ProjectsLC ==
  { <<MkFile("test.ts", <<>>, <<>>, cs)>> : cs \in ClassListsLC }
  \cup { <<MkFile("a.ts", <<>>, <<>>, c1), MkFile("b.ts", <<>>, <<>>, c2)>> :
           c1 \in {<<ClassChoice(FALSE, <<>>, FALSE, <<>>, <<Method("unbind", NoType, FALSE)>>)>>},
           c2 \in ClassListsLC }

(***************************************************************************)
(* The source passes together, each run on the projects of every pass.     *)
(***************************************************************************)
ProjectsPasses ==
  { <<MkFile("test.ts", im, vs, <<c>>)>> :
      im \in { <<Import(1, "aurelia-framework", <<"autoinject">>, NoName, NoName)>>,
               <<Import(1, "aurelia-framework", <<"autoinject">>, <<"Framework">>, NoName)>> },
      vs \in VarListsDI, c \in ClassChoices }
  \cup { p \in ProjectsComputed : Len(p) = 2 }
  \cup { <<MkFile("test.ts", im, <<>>, <<c>>)>> :
           im \in { <<Import(1, "aurelia-framework", <<"computedFrom">>, NoName, NoName)>>,
                    <<Import(1, "aurelia", <<"computed">>, NoName, NoName),
                      Import(2, "aurelia-binding", <<"computedFrom", "observable">>, NoName, NoName)>> },
           c \in ClassChoicesComputed }
  \cup { <<MkFileBody("test.ts", im, b)>> :
           im \in { <<Import(1, "aurelia-pal", <<"PLATFORM">>, NoName, NoName)>>,
                    <<Import(1, "aurelia-framework", <<"PLATFORM", "autoinject">>, NoName, NoName)>> },
           b \in BodiesPlatform }
  \cup { <<[MkFile("test.ts", im, <<>>, <<c>>) EXCEPT !.body = b]>> :
           im \in { <<Import(1, "aurelia-framework", <<"BindingEngine", "inject">>, NoName, NoName)>>,
                    <<Import(1, "aurelia-binding", <<"BindingEngine">>, NoName, NoName),
                      AliasImport(2, "aurelia-framework", "BindingEngine", "BE")>> },
           c \in ClassChoicesBE, b \in BodiesBE }
  \cup { <<MkFile("test.ts", im, <<>>, <<c>>)>> :
           im \in { <<Import(1, "aurelia-framework", <<"inlineView", "noView", "customElement", "bindable">>,
                             NoName, NoName)>>,
                    <<Import(1, "aurelia-framework", <<>>, NoName, <<"au">>)>> },
           c \in ClassChoicesCE }
  \cup { p \in ProjectsLC : Len(p) = 1 /\ Len(p[1].classes) = 1 /\ p[1].classes[1].name # NoName }

InitPasses ==
  /\ InitReporter
  /\ project \in ProjectsPasses
  /\ pre = project
  /\ mark = 0
  /\ lastPass = "none"
  /\ runs = 0
  /\ NoTemplates
  /\ NoDriver

NextPasses ==
  \/ transformBindingEngine
  \/ transformDI
  \/ transformComputed
  \/ transformCustomElement
  \/ transformPlatform
  \/ transformLifecycle

SpecPasses == InitPasses /\ [][NextPasses]_vars

(***************************************************************************)
(* Claims about the passes together.                                       *)
(***************************************************************************)
\* What the pass that ran last makes of the project as it is now, and of the
\* log as it is now.
RerunOf(pass) ==
  CASE pass = "transformDI" -> DIProject(project, heap)
    [] pass = "transformComputed" -> ComputedProject(project, heap)
    [] pass = "transformBindingEngine" -> BEProject(project, heap)
    [] pass = "transformCustomElement" -> CEProject(project, heap)
    [] pass = "transformPlatform" -> PlatformProject(project, heap)
    [] pass = "transformLifecycle" -> LCProject(project, heap)

SourcePasses ==
  { "transformDI", "transformComputed", "transformBindingEngine", "transformCustomElement",
    "transformPlatform", "transformLifecycle" }

\* The entries a rerun adds to the log
RerunEntries(pass) ==
  SubSeq(RerunOf(pass).h[data].entries, Len(entries) + 1, Len(RerunOf(pass).h[data].entries))

ChangeKinds == {"edit", "add", "remove"}

\* C16: whenever a source pass has just run, running the same pass again on
\* the project leaves every file as it is and adds no edit, add or remove
\* entry to the log.
C16_PassesIdempotent ==
  lastPass \in SourcePasses =>
    /\ RerunOf(lastPass).sf = project
    /\ \A i \in Idx(RerunEntries(lastPass)) : RerunEntries(lastPass)[i].kind \notin ChangeKinds

\* C16 witness: a pass ran twice in a row on a project its first run changed
\* and for which it logged a change; here the second run is the last step, it
\* found the files as the first left them, and logged warnings again.
C16_Witness ==
  /\ lastPass = "transformLifecycle"
  /\ runs = 2
  /\ project = pre
  /\ \E i \in 1..mark : entries[i].kind = "edit" /\ entries[i].after = <<"unbinding", "()">>
  /\ Len(PassEntries) > 0
  /\ \A i \in Idx(PassEntries) : PassEntries[i] \in {entries[j] : j \in 1..mark}

(***************************************************************************)
(* Source text as the advisory passes read it: getFullText(), getBodyText()*)
(* and String.prototype.includes over sequences of tokens.                 *)
(***************************************************************************)
\* text.includes(needle) for a needle of several tokens: the tokens of the
\* needle in a row
Includes(text, needle) ==
  \E i \in 1..(Len(text) - Len(needle) + 1) : SubSeq(text, i, i + Len(needle) - 1) = needle

\* The tokens of the projects below that hold a word without being it.
WordsWithin ==
  { <<"aurelia-framework", "aurelia">>, <<"aurelia-router", "aurelia">>,
    <<"aurelia-pal", "aurelia">>, <<"aurelia-binding", "aurelia">>,
    <<"'aurelia-validation'", "aurelia">>, <<"'aurelia-custom'", "aurelia">>,
    <<"configureRouter", "configure">>,
    <<"'users/:id'", ":">>, <<"'files/*path'", "*">>,
    <<"'router:navigation:complete'", "router:navigation:">> }

\* token.includes(word)
WordIn(tok, word) == tok = word \/ <<tok, word>> \in WordsWithin

\* text.includes(word) for a needle that is one word
HasWord(text, word) == \E i \in 1..Len(text) : WordIn(text[i], word)

\* method.getBodyText() || '', and the types of the parameters of a method
bodyText(m) == IF "body" \in DOMAIN m THEN m.body ELSE <<>>
paramTypes(m) == IF "paramTypes" \in DOMAIN m THEN m.paramTypes ELSE <<>>

\* The text of a decorator, of a member and of a class
DecoratorText(d) ==
  <<"@">> \o CalleeText(d) \o (IF d.call THEN <<"(">> \o JoinArgs(d.args) \o <<")">> ELSE <<>>)
MemberText(m) ==
  IF isMethod(m)
  THEN m.name \o <<"(">> \o JoinArgs(paramTypes(m)) \o <<")", "{">> \o bodyText(m) \o <<"}">>
  ELSE m.name \o m.type \o m.initializer
ClassTexts(cls) ==
  {DecoratorText(cls.decorators[i]) : i \in 1..Len(cls.decorators)}
    \cup {cls.params[i].name \o cls.params[i].typeText : i \in 1..Len(cls.params)}
    \cup {MemberText(cls.members[i]) : i \in 1..Len(cls.members)}
ImportText(imp) ==
  <<"import">> \o [i \in 1..Len(imp.named) |-> imp.named[i].name[1]] \o <<"from", imp.module>>

\* sf.getFullText(), as the set of the texts of its parts
FullTexts(sf) ==
  {ImportText(sf.imports[i]) : i \in 1..Len(sf.imports)}
    \cup UNION {ClassTexts(sf.classes[i]) : i \in 1..Len(sf.classes)}
    \cup {NodeText(sf.body[i]) : i \in 1..Len(sf.body)}

\* content.includes(needle)
FileIncludes(sf, needle) == \E t \in FullTexts(sf) : Includes(t, needle)
FileHasWord(sf, word) == \E t \in FullTexts(sf) : HasWord(t, word)

\* cls.getMethod(name)
getMethod(cls, name) ==
  IF \E i \in 1..Len(cls.members) : isMethod(cls.members[i]) /\ cls.members[i].name = <<name>>
  THEN cls.members[CHOOSE i \in 1..Len(cls.members) :
                      /\ isMethod(cls.members[i]) /\ cls.members[i].name = <<name>>
                      /\ \A j \in 1..(i - 1) :
                           ~(isMethod(cls.members[j]) /\ cls.members[j].name = <<name>>)]
  ELSE [kind |-> "none"]
hasMethod(cls, name) == getMethod(cls, name).kind # "none"

(***************************************************************************)
(* transform-binding-syntax.ts: transformBindingSyntax(project, reporter)  *)
(***************************************************************************)
\* AST_METHODS
AST_METHODS(name) ==
  CASE name = "evaluate" -> "astEvaluate"
    [] name = "assign" -> "astAssign"
    [] name = "bind" -> "astBind"
    [] name = "unbind" -> "astUnbind"
    [] name = "accept" -> "astVisit"
    [] OTHER -> ""

MsgReplacedSourceExpression == <<"Replaced .sourceExpression with .ast">>
MsgReplacedSourceExpressionKey == <<"Replaced [\"sourceExpression\"] with [\"ast\"]">>
MsgAstMethodCall(name) ==
  <<"Found AST method call \".", name, "()\". Use ", AST_METHODS(name), "(...) instead.">>

\* The positions of a text where a property access is named sourceExpression,
\* and those where an element access has the string literal as its argument.
isPropAccessAt(text, i) == i > 1 /\ text[i - 1] = "." /\ text[i] = "sourceExpression"
isElemAccessAt(text, i) ==
  /\ i > 1 /\ i < Len(text) /\ text[i - 1] = "[" /\ text[i + 1] = "]"
  /\ text[i] \in {"'sourceExpression'", "\"sourceExpression\""}

\* propAccess.replaceWithText(`${expression}.ast`), arg.replaceWithText("'ast'")
ReplaceSourceExpression(text) ==
  [i \in 1..Len(text) |->
     IF isPropAccessAt(text, i) THEN "ast"
     ELSE IF isElemAccessAt(text, i) THEN "'ast'" ELSE text[i]]

\* The names of the property accesses a text calls, in the order of the text.
HelperCalls ==
  <<"getObserver", "subscribe", "unsubscribe", "subscribe", "unsubscribe", "create", "parse",
    "bind", "unbind">>
CalledAt(text, i) == i > 1 /\ i < Len(text) /\ text[i - 1] = "." /\ text[i + 1] = "("
CalledNames(text) ==
  LET f[i \in 0..Len(text)] ==
        IF i = 0 THEN <<>>
        ELSE IF CalledAt(text, i) THEN Append(f[i - 1], text[i]) ELSE f[i - 1]
  IN f[Len(text)]
NodeCalledNames(n) ==
  CASE n.kind = "call" -> <<n.prop>>
    [] n.kind = "function" -> IF n.name = HelperName THEN HelperCalls ELSE CalledNames(n.text)
    [] n.kind = "string" -> <<>>
    [] OTHER -> CalledNames(n.text)

\* The statements of the file with the two replacements made.
BSNode(n) == IF n.kind = "expr" THEN [n EXCEPT !.text = ReplaceSourceExpression(@)] ELSE n
BSBody(body) == [i \in 1..Len(body) |-> BSNode(body[i])]

\* How many replacements of each kind the file gets.
PropAccessCount(body) ==
  LET f[i \in 0..Len(body)] ==
        IF i = 0 THEN 0
        ELSE f[i - 1] + (IF body[i].kind = "expr"
                         THEN Cardinality({k \in 1..Len(body[i].text) : isPropAccessAt(body[i].text, k)})
                         ELSE 0)
  IN f[Len(body)]
ElemAccessCount(body) ==
  LET f[i \in 0..Len(body)] ==
        IF i = 0 THEN 0
        ELSE f[i - 1] + (IF body[i].kind = "expr"
                         THEN Cardinality({k \in 1..Len(body[i].text) : isElemAccessAt(body[i].text, k)})
                         ELSE 0)
  IN f[Len(body)]

\* reporter.edit(path, message), n times
BSEdits(h, path, message, n) ==
  LET f[i \in 0..n] ==
        IF i = 0 THEN h ELSE Reporter_edit(f[i - 1], data, path, message, Undefined, Undefined)
  IN f[n]

\* The third loop: one warning for each call of an AST method.
AstCalls(body) ==
  LET f[i \in 0..Len(body)] ==
        IF i = 0 THEN <<>>
        ELSE f[i - 1] \o SelectSeq(NodeCalledNames(body[i]), LAMBDA n : AST_METHODS(n) # "")
  IN f[Len(body)]
BSWarns(h, path, names) ==
  LET f[i \in 0..Len(names)] ==
        IF i = 0 THEN h ELSE Reporter_warn(f[i - 1], data, path, MsgAstMethodCall(names[i]))
  IN f[Len(names)]

\* The body of `for (const sf of project.getSourceFiles())`: the calls are
\* looked for in the text the replacements left.
BSFile(sf0, h0) ==
  [sf |-> [sf0 EXCEPT !.body = BSBody(@)],
   h |-> BSWarns(BSEdits(BSEdits(h0, sf0.path, MsgReplacedSourceExpression,
                                 PropAccessCount(sf0.body)),
                         sf0.path, MsgReplacedSourceExpressionKey, ElemAccessCount(sf0.body)),
                 sf0.path, AstCalls(BSBody(sf0.body)))]

BSProject(proj, h0) ==
  LET f[i \in 0..Len(proj)] ==
        IF i = 0 THEN [sf |-> <<>>, h |-> h0]
        ELSE [sf |-> Append(f[i - 1].sf, BSFile(proj[i], f[i - 1].h).sf),
              h |-> BSFile(proj[i], f[i - 1].h).h]
  IN f[Len(proj)]

(***************************************************************************)
(* transform-bootstrap.ts: transformBootstrap(project, reporter)           *)
(***************************************************************************)
\* path.basename(filePath)
basename(path) ==
  CASE path = "src/main.ts" -> "main.ts"
    [] path = "src/index.ts" -> "index.ts"
    [] path = "src/app.ts" -> "app.ts"
    [] OTHER -> path

\* content.includes(a) || content.includes(b) || content.includes(c)
LooksLikeMain(sf) ==
  FileHasWord(sf, "aurelia") \/ FileHasWord(sf, "configure") \/ FileHasWord(sf, "start")

\* findMainFiles(project): the positions of the main files
findMainFiles(proj) ==
  SelectSeq([i \in 1..Len(proj) |-> i],
            LAMBDA i : basename(proj[i].path) \in {"main.ts", "main.js", "index.ts", "index.js"}
                       /\ LooksLikeMain(proj[i]))

\* The text between the quotes of a string literal.
Unquote(tok) ==
  CASE tok = "'aurelia-validation'" -> "aurelia-validation"
    [] tok = "'aurelia-custom'" -> "aurelia-custom"
    [] tok = "'resources'" -> "resources"
    [] tok = "'shell'" -> "shell"
    [] OTHER -> ""
isStringLiteralToken(tok) == Unquote(tok) # ""

\* The statements of the file in a row: the text the patterns are matched on.
Content(sf) ==
  LET f[i \in 0..Len(sf.body)] ==
        IF i = 0 THEN <<>> ELSE f[i - 1] \o NodeText(sf.body[i])
  IN f[Len(sf.body)]

\* content.match(/\.NAME\(['"](.*?)['"]/g): the literals that follow `.NAME(`
LiteralsAfter(text, name) ==
  LET f[i \in 0..Len(text)] ==
        IF i = 0 THEN <<>>
        ELSE IF /\ i > 3 /\ text[i - 3] = "." /\ text[i - 2] = name /\ text[i - 1] = "("
                /\ isStringLiteralToken(text[i])
             THEN Append(f[i - 1], Unquote(text[i]))
             ELSE f[i - 1]
  IN f[Len(text)]

\* content.match(/setRoot\(['"](.*?)['"]/): the first literal that follows
\* `setRoot(`; the pattern that starts at `.start()` finds the same literal.
SetRoots(text) ==
  LET f[i \in 0..Len(text)] ==
        IF i = 0 THEN <<>>
        ELSE IF /\ i > 2 /\ text[i - 2] = "setRoot" /\ text[i - 1] = "("
                /\ isStringLiteralToken(text[i])
             THEN Append(f[i - 1], Unquote(text[i]))
             ELSE f[i - 1]
  IN f[Len(text)]

\* analyzeAurelia1Bootstrap(content)
analyzeAurelia1Bootstrap(text) ==
  [plugins |-> LiteralsAfter(text, "plugin"),
   features |-> LiteralsAfter(text, "feature"),
   appComponent |-> IF SetRoots(text) = <<>> THEN "" ELSE SetRoots(text)[1]]

knownV2Plugins ==
  {"aurelia-validation", "aurelia-i18n", "aurelia-dialog", "aurelia-fetch-client", "aurelia-router"}
requiresManualMigration(plugin) == plugin \notin knownV2Plugins

getAurelia2PluginRegistration(plugin) ==
  CASE plugin = "aurelia-validation" -> "ValidationConfiguration"
    [] plugin = "aurelia-i18n" -> "I18nConfiguration"
    [] plugin = "aurelia-dialog" -> "DialogConfiguration"
    [] plugin = "aurelia-fetch-client" -> "HttpClientConfiguration"
    [] plugin = "aurelia-router" -> "RouterConfiguration"
    [] OTHER -> ""
getAurelia2PluginImport(plugin) ==
  CASE plugin = "aurelia-validation" -> "import { ValidationConfiguration } from '@aurelia/validation';"
    [] plugin = "aurelia-i18n" -> "import { I18nConfiguration } from '@aurelia/i18n';"
    [] plugin = "aurelia-dialog" -> "import { DialogConfiguration } from '@aurelia/dialog';"
    [] plugin = "aurelia-fetch-client" -> "import { HttpClientConfiguration } from '@aurelia/fetch-client';"
    [] plugin = "aurelia-router" -> "import { RouterConfiguration } from '@aurelia/router';"
    [] OTHER -> ""

appComponentOr(analysis) == IF analysis.appComponent = "" THEN "app" ELSE analysis.appComponent

\* generateImports(analysis), generateRegistrations(analysis): the lines
generateImports(analysis) ==
  <<"import { Aurelia } from 'aurelia';",
    "import { ", appComponentOr(analysis), " } from './", appComponentOr(analysis), "';">>
    \o SelectSeq([i \in 1..Len(analysis.plugins) |-> getAurelia2PluginImport(analysis.plugins[i])],
                 LAMBDA l : l # "")
TodoLines(features) ==
  LET f[i \in 0..Len(features)] ==
        IF i = 0 THEN <<>>
        ELSE f[i - 1] \o <<"    // TODO: Migrate feature '", features[i], "' to Aurelia 2">>
  IN f[Len(features)]
generateRegistrations(analysis) ==
  <<"  .register(">>
    \o SelectSeq([i \in 1..Len(analysis.plugins) |->
                    getAurelia2PluginRegistration(analysis.plugins[i])],
                 LAMBDA l : l # "")
    \o TodoLines(analysis.features)
    \o <<"  )">>

\* generateBootstrapCode(analysis)
generateBootstrapCode(analysis) ==
  generateImports(analysis) \o <<"", "Aurelia">> \o generateRegistrations(analysis)
    \o <<"  .app(", appComponentOr(analysis), ")", "  .start();">>

MsgBootstrapDetected ==
  <<"Aurelia 1 bootstrap detected in main.ts. This needs manual migration to Aurelia 2.">>
MsgExampleCode(analysis) ==
  <<"Example Aurelia 2 bootstrap code:">> \o generateBootstrapCode(analysis)
MsgPluginManual(plugin) ==
  <<"Plugin '", plugin,
    "' needs manual migration to Aurelia 2. Check if an Aurelia 2 version is available.">>
MsgPluginEquivalent(plugin) == <<"Plugin '", plugin, "' has an Aurelia 2 equivalent available.">>
MsgFeatures(features) ==
  <<"Features detected: ">> \o JoinNames(features)
    \o <<". These need manual migration - features work differently in Aurelia 2.">>
MsgWebpack ==
  <<"Webpack-specific bootstrap patterns detected. Aurelia 2 works with modern bundlers without special configuration. Review bundler setup.">>
MsgRemoveAureliaApp ==
  <<"Remember to remove aurelia-app attributes from HTML files. Aurelia 2 uses explicit bootstrap in main.ts instead.">>
MsgUpdateScriptTags ==
  <<"Update script tags to load the new main.js bundle. Remove aurelia-bootstrapper references.">>

\* `for (const plugin of analysis.plugins)`
BootPlugins(h, path, plugins) ==
  LET f[i \in 0..Len(plugins)] ==
        IF i = 0 THEN h
        ELSE IF requiresManualMigration(plugins[i])
             THEN Reporter_warn(f[i - 1], data, path, MsgPluginManual(plugins[i]))
             ELSE Reporter_note(f[i - 1], data, path, MsgPluginEquivalent(plugins[i]))
  IN f[Len(plugins)]
BootFeatures(h, path, features) ==
  IF Len(features) > 0 THEN Reporter_warn(h, data, path, MsgFeatures(features)) ELSE h

\* generateMigrationGuidance(mainFile, analysis, reporter)
generateMigrationGuidance(h, path, analysis) ==
  BootFeatures(BootPlugins(Reporter_note(Reporter_warn(h, data, path, MsgBootstrapDetected),
                                         data, path, MsgExampleCode(analysis)),
                           path, analysis.plugins),
               path, analysis.features)

\* handleWebpackBootstrap(mainFile, reporter), under the condition of its call
BootWebpack(h, sf) ==
  IF FileHasWord(sf, "webpack_require") \/ FileIncludes(sf, <<"require", ".", "ensure">>)
  THEN Reporter_warn(h, data, sf.path, MsgWebpack) ELSE h
BootGuidance(h, sf) ==
  IF FileIncludes(sf, <<"aurelia", ".", "configure">>) \/ FileIncludes(sf, <<"aurelia", ".", "use">>)
  THEN generateMigrationGuidance(h, sf.path, analyzeAurelia1Bootstrap(Content(sf))) ELSE h

\* transformMainFile(mainFile, project, reporter), with the mutant that does
\* not look for the modern form
transformMainFileAlways(h, sf) == BootGuidance(BootWebpack(h, sf), sf)
transformMainFile(h, sf) ==
  IF FileIncludes(sf, <<"Aurelia", ".", "register">>) \/ FileHasWord(sf, "@aurelia/kernel")
  THEN h
  ELSE BootGuidance(BootWebpack(h, sf), sf)

\* analyzeHtmlBootstrap(project, reporter), with the mutant that logs an edit
analyzeHtmlBootstrapEdit(h) ==
  Reporter_edit(h, data, "HTML_FILES", MsgRemoveAureliaApp, Undefined, Undefined)
analyzeHtmlBootstrap(h) ==
  Reporter_note(Reporter_note(h, data, "HTML_FILES", MsgRemoveAureliaApp),
                data, "HTML_FILES", MsgUpdateScriptTags)

\* transformBootstrap(project, reporter): the files are read, not changed
BootProject(proj, h0) ==
  LET f[i \in 0..Len(findMainFiles(proj))] ==
        IF i = 0 THEN h0 ELSE transformMainFile(f[i - 1], proj[findMainFiles(proj)[i]])
  IN [sf |-> proj, h |-> analyzeHtmlBootstrap(f[Len(findMainFiles(proj))])]

\* suggestCompatPackage(project, reporter)
MsgInstallCompat ==
  <<"Consider installing @aurelia/compat-v1 for easier migration. Run: npm install @aurelia/compat-v1">>
MsgRegisterCompat ==
  <<"With compat package, add compatRegistration to your bootstrap: Aurelia.register(compatRegistration, ...)">>
needsCompat(proj) ==
  \E i \in 1..Len(proj) :
    \/ FileIncludes(proj[i], <<"@", "noView">>)
    \/ FileIncludes(proj[i], <<"@", "inlineView">>)
    \/ FileIncludes(proj[i], <<"@", "viewResources">>)
    \/ FileIncludes(proj[i], <<"@", "processContent">>)
CompatProject(proj, h0) ==
  [sf |-> proj,
   h |-> IF needsCompat(proj)
         THEN Reporter_note(Reporter_note(h0, data, "COMPATIBILITY", MsgInstallCompat),
                            data, "COMPATIBILITY", MsgRegisterCompat)
         ELSE h0]

(***************************************************************************)
(* transform-templates.ts: analyzePlatformUsage(project, reporter)         *)
(***************************************************************************)
platformMethods == <<"global", "location", "history", "eachModule", "requestAnimationFrame">>
MsgPlatformMethod(m) ==
  <<"Found PLATFORM.", m, " - this PLATFORM method needs manual migration to Aurelia 2 equivalents">>
MsgPlatformDOM == <<"Found PLATFORM.DOM - migrate to native DOM APIs or @aurelia/dom package">>

PUMethods(h, sf) ==
  LET f[i \in 0..Len(platformMethods)] ==
        IF i = 0 THEN h
        ELSE IF FileIncludes(sf, <<"PLATFORM", ".", platformMethods[i]>>)
             THEN Reporter_warn(f[i - 1], data, sf.path, MsgPlatformMethod(platformMethods[i]))
             ELSE f[i - 1]
  IN f[Len(platformMethods)]
PUFile(h, sf) ==
  IF FileIncludes(sf, <<"PLATFORM", ".", "DOM">>)
  THEN Reporter_warn(PUMethods(h, sf), data, sf.path, MsgPlatformDOM)
  ELSE PUMethods(h, sf)
PUProject(proj, h0) ==
  LET f[i \in 0..Len(proj)] == IF i = 0 THEN h0 ELSE PUFile(f[i - 1], proj[i])
  IN [sf |-> proj, h |-> f[Len(proj)]]

(***************************************************************************)
(* suggestNewLifecycleHooks(project, reporter) and                         *)
(* detectLifecycleAntiPatterns(project, reporter)                          *)
(***************************************************************************)
MsgConsiderBound(cn) ==
  <<"Class ">> \o cn
    \o <<" has bind(). Consider using the new bound() lifecycle hook for work that needs to happen after binding is complete.">>
MsgConsiderAttaching(cn) ==
  <<"Class ">> \o cn
    \o <<" has attached(). Consider using the new attaching() lifecycle hook for work that needs to happen before DOM attachment.">>
MsgDomInBind(cn) ==
  <<"Class ">> \o cn
    \o <<" appears to do DOM manipulation in bind(). Consider moving DOM work to attached() or the new attaching() hook.">>
MsgNoCleanup(cn) ==
  <<"Class ">> \o cn
    \o <<" sets up async operations or event listeners in attached() but has no detached() for cleanup. This can cause memory leaks.">>

SuggestBound(h, path, cls) ==
  IF Contains(methodNames(cls), <<"bind">>) /\ ~Contains(methodNames(cls), <<"bound">>)
  THEN Reporter_note(h, data, path, MsgConsiderBound(ClassNameOr(cls))) ELSE h
SuggestAttaching(h, path, cls) ==
  IF Contains(methodNames(cls), <<"attached">>) /\ ~Contains(methodNames(cls), <<"attaching">>)
  THEN Reporter_note(h, data, path, MsgConsiderAttaching(ClassNameOr(cls))) ELSE h
SuggestFile(h, sf) ==
  LET f[i \in 0..Len(sf.classes)] ==
        IF i = 0 THEN h
        ELSE SuggestAttaching(SuggestBound(f[i - 1], sf.path, sf.classes[i]), sf.path, sf.classes[i])
  IN f[Len(sf.classes)]
\* suggestNewLifecycleHooks(project, reporter)
SuggestProject(proj, h0) ==
  LET f[i \in 0..Len(proj)] == IF i = 0 THEN h0 ELSE SuggestFile(f[i - 1], proj[i])
  IN [sf |-> proj, h |-> f[Len(proj)]]

\* Pattern 1 and pattern 2 of detectLifecycleAntiPatterns, for one class
DomInBind(cls) ==
  /\ hasMethod(cls, "bind")
  /\ \/ HasWord(bodyText(getMethod(cls, "bind")), "querySelector")
     \/ HasWord(bodyText(getMethod(cls, "bind")), "getElementById")
     \/ Includes(bodyText(getMethod(cls, "bind")), <<".", "focus", "(", ")">>)
     \/ HasWord(bodyText(getMethod(cls, "bind")), "scrollTo")
NoCleanup(cls) ==
  /\ hasMethod(cls, "attached") /\ ~hasMethod(cls, "detached")
  /\ \/ HasWord(bodyText(getMethod(cls, "attached")), "setInterval")
     \/ HasWord(bodyText(getMethod(cls, "attached")), "setTimeout")
     \/ HasWord(bodyText(getMethod(cls, "attached")), "addEventListener")
AntiDom(h, sf) ==
  LET f[i \in 0..Len(sf.classes)] ==
        IF i = 0 THEN h
        ELSE IF DomInBind(sf.classes[i])
             THEN Reporter_warn(f[i - 1], data, sf.path, MsgDomInBind(ClassNameOr(sf.classes[i])))
             ELSE f[i - 1]
  IN f[Len(sf.classes)]
AntiCleanup(h, sf) ==
  LET f[i \in 0..Len(sf.classes)] ==
        IF i = 0 THEN h
        ELSE IF NoCleanup(sf.classes[i])
             THEN Reporter_warn(f[i - 1], data, sf.path, MsgNoCleanup(ClassNameOr(sf.classes[i])))
             ELSE f[i - 1]
  IN f[Len(sf.classes)]
\* detectLifecycleAntiPatterns(project, reporter)
AntiProject(proj, h0) ==
  LET f[i \in 0..Len(proj)] ==
        IF i = 0 THEN h0 ELSE AntiCleanup(AntiDom(f[i - 1], proj[i]), proj[i])
  IN [sf |-> proj, h |-> f[Len(proj)]]

(***************************************************************************)
(* transform-router.ts: transformRouter(project, reporter)                 *)
(***************************************************************************)
MsgConfigureRouter(cn) ==
  <<"configureRouter() method in ">> \o cn \o <<" needs manual migration to Aurelia 2.">>
MsgMigrationOptions ==
  <<"Migration options: 1) Use static routes in main.ts, 2) Use @route decorators on components, 3) Use router-lite for simpler apps.">>
MsgRouterTitle(cn) ==
  <<"Router title configuration found in ">> \o cn
    \o <<". In Aurelia 2, set titles using @route({ title: 'Page Title' }) or page metadata.">>
MsgChildRoutes(cn) ==
  cn \o <<" uses child routes. Aurelia 2 handles nested routing differently - review nested routing documentation.">>
MsgRouteParameters(cn) ==
  cn \o <<" uses route parameters. Aurelia 2 supports parameters but syntax may differ: use {id} instead of :id">>
MsgWildcardRoutes(cn) ==
  cn \o <<" uses wildcard routes. Review Aurelia 2 wildcard syntax: use {...rest} for catch-all routes">>
MsgGeneratesUrls(cn) ==
  cn \o <<" generates route URLs programmatically. Aurelia 2 router has different URL generation APIs.">>
MsgUsesNavigationInstruction(mn, cn) ==
  <<mn, "() in ">> \o cn
    \o <<" uses NavigationInstruction. Aurelia 2 router has different parameter types.">>
MsgInstructionConfig(mn, cn) ==
  <<mn, "() in ">> \o cn
    \o <<" accesses instruction.config. Route configuration access has changed in Aurelia 2.">>
MsgRouteParams(mn, cn) ==
  <<mn, "() in ">> \o cn
    \o <<" accesses route parameters. Aurelia 2 injects parameters differently - use @newInstanceForScope or resolve IRouteContext.">>
MsgNavigationInstruction(cn) ==
  cn \o <<" imports or uses NavigationInstruction. This interface has changed significantly in Aurelia 2.">>
MsgNavigationCalls(cn) ==
  cn \o <<" calls router navigation methods. Aurelia 2 router navigation APIs are similar but may have different options.">>
MsgRouterEvents(cn) ==
  cn \o <<" uses router events. Aurelia 2 has a different event system for router navigation.">>

\* methodText.match(/route:\s*['"`][^'"`]*X[^'"`]*['"`]/): a route whose
\* literal holds the character
RouteLiteralWith(text, ch) ==
  \E i \in 3..Len(text) : text[i - 2] = "route" /\ text[i - 1] = ":" /\ <<text[i], ch>> \in WordsWithin

\* analyzeComplexRoutingPatterns(methodText, filePath, reporter, className)
RCChild(h, path, cn, text) ==
  IF HasWord(text, "childRoutes") THEN Reporter_warn(h, data, path, MsgChildRoutes(cn)) ELSE h
RCParams(h, path, cn, text) ==
  IF HasWord(text, ":") /\ RouteLiteralWith(text, ":")
  THEN Reporter_note(h, data, path, MsgRouteParameters(cn)) ELSE h
RCWildcard(h, path, cn, text) ==
  IF HasWord(text, "*") /\ RouteLiteralWith(text, "*")
  THEN Reporter_note(h, data, path, MsgWildcardRoutes(cn)) ELSE h
RCGenerate(h, path, cn, text) ==
  IF Includes(text, <<"router", ".", "generate">>) \/ HasWord(text, "generateUrl")
  THEN Reporter_warn(h, data, path, MsgGeneratesUrls(cn)) ELSE h
analyzeComplexRoutingPatterns(h, path, cn, text) ==
  RCGenerate(RCWildcard(RCParams(RCChild(h, path, cn, text), path, cn, text), path, cn, text),
             path, cn, text)

RCTitle(h, path, cn, text) ==
  IF Includes(text, <<"router", ".", "title">>) \/ Includes(text, <<"config", ".", "title">>)
  THEN Reporter_note(h, data, path, MsgRouterTitle(cn)) ELSE h

\* analyzeRouterConfiguration(method, cls, sourceFile, reporter, className)
analyzeRouterConfiguration(h, path, cn, text) ==
  RCTitle(analyzeComplexRoutingPatterns(
            Reporter_note(Reporter_warn(h, data, path, MsgConfigureRouter(cn)),
                          data, path, MsgMigrationOptions),
            path, cn, text),
          path, cn, text)

RouterConfiguration(h, path, cls) ==
  IF hasMethod(cls, "configureRouter")
  THEN analyzeRouterConfiguration(h, path, ClassNameOr(cls),
                                  bodyText(getMethod(cls, "configureRouter")))
  ELSE h

\* One iteration of `for (const methodName of routerLifecycleMethods)`, for a
\* method the class has
RLInstruction(h, path, cn, mn, m) ==
  IF \E i \in 1..Len(paramTypes(m)) : HasWord(paramTypes(m)[i], "NavigationInstruction")
  THEN Reporter_warn(h, data, path, MsgUsesNavigationInstruction(mn, cn)) ELSE h
RLConfig(h, path, cn, mn, m) ==
  IF \/ Includes(MemberText(m), <<"instruction", ".", "config">>)
     \/ Includes(MemberText(m), <<"navigationInstruction", ".", "config">>)
  THEN Reporter_warn(h, data, path, MsgInstructionConfig(mn, cn)) ELSE h
RLParams(h, path, cn, mn, m) ==
  IF \/ Includes(MemberText(m), <<"instruction", ".", "params">>)
     \/ Includes(MemberText(m), <<"instruction", ".", "queryParams">>)
     \/ Includes(MemberText(m), <<"navigationInstruction", ".", "params">>)
     \/ Includes(MemberText(m), <<"navigationInstruction", ".", "queryParams">>)
  THEN Reporter_note(h, data, path, MsgRouteParams(mn, cn)) ELSE h
RLMethod(h, path, cls, mn) ==
  IF hasMethod(cls, mn)
  THEN RLParams(RLConfig(RLInstruction(h, path, ClassNameOr(cls), mn, getMethod(cls, mn)),
                         path, ClassNameOr(cls), mn, getMethod(cls, mn)),
                path, ClassNameOr(cls), mn, getMethod(cls, mn))
  ELSE h

routerLifecycleMethodNames == <<"canActivate", "activate", "canDeactivate", "deactivate">>

\* analyzeRouterLifecycleMethods(cls, sourceFile, reporter, className)
analyzeRouterLifecycleMethods(h, path, cls) ==
  LET f[i \in 0..Len(routerLifecycleMethodNames)] ==
        IF i = 0 THEN h ELSE RLMethod(f[i - 1], path, cls, routerLifecycleMethodNames[i])
  IN f[Len(routerLifecycleMethodNames)]

\* classText.includes(needle)
ClassIncludes(cls, needle) == \E t \in ClassTexts(cls) : Includes(t, needle)
ClassHasWord(cls, word) == \E t \in ClassTexts(cls) : HasWord(t, word)

\* analyzeNavigationInstructions(cls, sourceFile, reporter, className)
NIInstruction(h, path, cls) ==
  IF ClassHasWord(cls, "NavigationInstruction")
  THEN Reporter_warn(h, data, path, MsgNavigationInstruction(ClassNameOr(cls))) ELSE h
NINavigate(h, path, cls) ==
  IF \/ ClassIncludes(cls, <<"router", ".", "navigate">>)
     \/ ClassIncludes(cls, <<"router", ".", "navigateToRoute">>)
  THEN Reporter_note(h, data, path, MsgNavigationCalls(ClassNameOr(cls))) ELSE h
NIGenerate(h, path, cls) ==
  IF ClassIncludes(cls, <<"router", ".", "generate">>) \/ ClassHasWord(cls, "generateUrl")
  THEN Reporter_warn(h, data, path, MsgGeneratesUrls(ClassNameOr(cls))) ELSE h
NIEvents(h, path, cls) ==
  IF ClassHasWord(cls, "router:navigation:") \/ ClassHasWord(cls, "RouterEvent")
  THEN Reporter_warn(h, data, path, MsgRouterEvents(ClassNameOr(cls))) ELSE h
analyzeNavigationInstructions(h, path, cls) ==
  NIEvents(NIGenerate(NINavigate(NIInstruction(h, path, cls), path, cls), path, cls), path, cls)

\* One iteration of `for (const cls of classes)`.
RouterClass(h, path, cls) ==
  analyzeNavigationInstructions(
    analyzeRouterLifecycleMethods(RouterConfiguration(h, path, cls), path, cls), path, cls)
RouterFile(h, sf) ==
  LET f[i \in 0..Len(sf.classes)] ==
        IF i = 0 THEN h ELSE RouterClass(f[i - 1], sf.path, sf.classes[i])
  IN f[Len(sf.classes)]
RouterProject(proj, h0) ==
  LET f[i \in 0..Len(proj)] == IF i = 0 THEN h0 ELSE RouterFile(f[i - 1], proj[i])
  IN [sf |-> proj, h |-> f[Len(proj)]]

\* generateRouterMigrationGuide(project, reporter)
RouterGuide ==
  << <<"Router Migration Guide:">>,
     <<"1. Replace configureRouter() with static routes in main.ts or @route decorators on components">>,
     <<"2. Update router lifecycle methods - parameters and context have changed">>,
     <<"3. Install new router: npm install @aurelia/router">>,
     <<"4. Consider @aurelia/router-lite for simpler applications">>,
     <<"5. Review Aurelia 2 router documentation for viewport and navigation changes">> >>
hasRouterUsage(proj) ==
  \E i \in 1..Len(proj) :
    \/ FileHasWord(proj[i], "configureRouter")
    \/ FileHasWord(proj[i], "NavigationInstruction")
    \/ FileHasWord(proj[i], "canActivate")
    \/ FileIncludes(proj[i], <<"router", ".", "navigate">>)
GuideProject(proj, h0) ==
  LET f[i \in 0..Len(RouterGuide)] ==
        IF i = 0 THEN h0 ELSE Reporter_note(f[i - 1], data, "ROUTER_MIGRATION", RouterGuide[i])
  IN [sf |-> proj, h |-> IF hasRouterUsage(proj) THEN f[Len(RouterGuide)] ELSE h0]

(***************************************************************************)
(* cli.ts: the driver. One run of the command line tool, step by step.     *)
(***************************************************************************)
\* The calls of the driver, in the order of its text.
DriverOrder ==
  <<"transformBindingEngine", "transformDI", "transformComputed", "transformCustomElement",
    "transformBindingSyntax", "transformPlatform", "transformLifecycle", "transformBootstrap",
    "transformRouter", "analyzePlatformUsage", "suggestNewLifecycleHooks",
    "detectLifecycleAntiPatterns", "suggestCompatPackage", "generateRouterMigrationGuide",
    "saveSync", "transformTemplates", "compatNote", "finish">>

StepIndex(name) == CHOOSE i \in 1..Len(DriverOrder) : DriverOrder[i] = name

\* The statement that follows a statement of the driver, with the mutant that
\* calls transformLifecycle before transformPlatform.
StepAfterSwapped(name) ==
  CASE name = "transformBindingSyntax" -> "transformLifecycle"
    [] name = "transformLifecycle" -> "transformPlatform"
    [] name = "transformPlatform" -> "transformBootstrap"
    [] name = "finish" -> "done"
    [] OTHER -> DriverOrder[StepIndex(name) + 1]
StepAfter(name) ==
  IF StepIndex(name) = Len(DriverOrder) THEN "done" ELSE DriverOrder[StepIndex(name) + 1]

MsgCompatMode ==
  <<"Compat mode requested. Register @aurelia/compat-v1 during migration, then remove it when done.">>

\* The driver moves on; it notes where in the log the step started and what
\* the step started from.
Advance(name) ==
  /\ pc = name
  /\ pc' = StepAfter(name)
  /\ marks' = Append(marks, [pass |-> name, at |-> Len(entries), project |-> project,
                             disk |-> disk])
  /\ UNCHANGED <<opts, saved>>

\* A call `pass(project, reporter)` of the driver, res being what the pass
\* makes of the project and the log.
DriverPass(name, res) ==
  /\ project' = res.sf
  /\ heap' = res.h
  /\ pre' = project
  /\ mark' = Len(entries)
  /\ lastPass' = name
  /\ UNCHANGED <<data, result, now, calls, callsAtFinish, runs, templateVars>>

main_transformBindingEngine ==
  /\ Advance("transformBindingEngine")
  /\ DriverPass("transformBindingEngine", BEProject(project, heap))
main_transformDI ==
  /\ Advance("transformDI")
  /\ DriverPass("transformDI", DIProject(project, heap))
main_transformComputed ==
  /\ Advance("transformComputed")
  /\ DriverPass("transformComputed", ComputedProject(project, heap))
main_transformCustomElement ==
  /\ Advance("transformCustomElement")
  /\ DriverPass("transformCustomElement", CEProject(project, heap))
main_transformBindingSyntax ==
  /\ Advance("transformBindingSyntax")
  /\ DriverPass("transformBindingSyntax", BSProject(project, heap))
main_transformPlatform ==
  /\ Advance("transformPlatform")
  /\ DriverPass("transformPlatform", PlatformProject(project, heap))
main_transformLifecycle ==
  /\ Advance("transformLifecycle")
  /\ DriverPass("transformLifecycle", LCProject(project, heap))
main_transformBootstrap ==
  /\ Advance("transformBootstrap")
  /\ DriverPass("transformBootstrap", BootProject(project, heap))
main_transformRouter ==
  /\ Advance("transformRouter")
  /\ DriverPass("transformRouter", RouterProject(project, heap))
main_analyzePlatformUsage ==
  /\ Advance("analyzePlatformUsage")
  /\ DriverPass("analyzePlatformUsage", PUProject(project, heap))
main_suggestNewLifecycleHooks ==
  /\ Advance("suggestNewLifecycleHooks")
  /\ DriverPass("suggestNewLifecycleHooks", SuggestProject(project, heap))
main_detectLifecycleAntiPatterns ==
  /\ Advance("detectLifecycleAntiPatterns")
  /\ DriverPass("detectLifecycleAntiPatterns", AntiProject(project, heap))
main_suggestCompatPackage ==
  /\ Advance("suggestCompatPackage")
  /\ DriverPass("suggestCompatPackage", CompatProject(project, heap))
main_generateRouterMigrationGuide ==
  /\ Advance("generateRouterMigrationGuide")
  /\ DriverPass("generateRouterMigrationGuide", GuideProject(project, heap))

\* `if (!opts.dry) { project.saveSync(); }`
main_saveSync ==
  /\ pc = "saveSync"
  /\ pc' = StepAfter("saveSync")
  /\ marks' = Append(marks, [pass |-> "saveSync", at |-> Len(entries), project |-> project,
                             disk |-> disk])
  /\ saved' = IF opts.dry THEN saved ELSE project
  /\ UNCHANGED <<heap, data, result, now, calls, callsAtFinish, project, pre, mark, lastPass,
                 runs, templateVars, opts>>

\* transformTemplates(templatePaths, reporter, { write: !opts.dry })
main_transformTemplates ==
  /\ Advance("transformTemplates")
  /\ disk' = TemplateFiles(disk, heap, ~opts.dry).disk
  /\ heap' = TemplateFiles(disk, heap, ~opts.dry).h
  /\ writes' = TemplateFiles(disk, heap, ~opts.dry).writes
  /\ preDisk' = disk
  /\ optWrite' = ~opts.dry
  /\ mark' = Len(entries)
  /\ lastPass' = "transformTemplates"
  /\ UNCHANGED <<data, result, now, calls, callsAtFinish, project, pre, runs>>

\* `if (opts.compat) { reporter.note('PROJECT', ...); }`
main_compatNote ==
  /\ Advance("compatNote")
  /\ heap' = IF opts.compat THEN Reporter_note(heap, data, "PROJECT", MsgCompatMode) ELSE heap
  /\ UNCHANGED <<data, result, now, calls, callsAtFinish, project, pre, mark, lastPass, runs,
                 templateVars>>

\* writeReport(cwd, reporter.finish(), opts.reportDir): the call of finish()
main_finish ==
  /\ Advance("finish")
  /\ heap' = [heap EXCEPT ![data].finishedAt = now]
  /\ result' = data
  /\ callsAtFinish' = Len(calls)
  /\ UNCHANGED <<data, now, calls, project, pre, mark, lastPass, runs, templateVars>>

(***************************************************************************)
(* The projects and the templates the driver is run on.                    *)
(***************************************************************************)
MethodWith(name, types, body) ==
  [paramTypes |-> types, body |-> body] @@ Method(name, NoType, FALSE)

B_useChain ==
  Expr(<<"aurelia", ".", "use", ".", "standardConfiguration", "(", ")",
         ".", "plugin", "(", "'aurelia-validation'", ")",
         ".", "plugin", "(", "'aurelia-custom'", ")",
         ".", "feature", "(", "'resources'", ")">>)
B_start ==
  Expr(<<"aurelia", ".", "start", "(", ")", ".", "then", "(", "(", ")", "=>",
         "aurelia", ".", "setRoot", "(", "'shell'", ")", ")">>)
B_startPlain == Expr(<<"aurelia", ".", "use", ".", "basicConfiguration", "(", ")">>)
B_register == Expr(<<"Aurelia", ".", "register", "(", ")", ".", "app", "(", "App", ")">>)
B_ensure == Expr(<<"require", ".", "ensure", "(", "[", "]", ")">>)
B_sourceExpression ==
  Expr(<<"binding", ".", "sourceExpression", ".", "evaluate", "(", "scope", ")">>)
B_sourceExpressionKey == Expr(<<"binding", "[", "'sourceExpression'", "]">>)
B_accept == Expr(<<"expr", ".", "accept", "(", "visitor", ")">>)

M_configureRouter ==
  MethodWith("configureRouter", << <<"config">>, <<"router">> >>,
             <<"config", ".", "title", "=", "'App'", ";",
               "config", ".", "map", "(", "[", "{", "route", ":", "'users/:id'", ",",
               "moduleId", ":", "'./users'", "}", ",", "{", "route", ":", "'files/*path'", "}",
               "]", ")", ";", "router", ".", "generate", "(", "'home'", ")">>)
M_configureChild ==
  MethodWith("configureRouter", << <<"config">> >>, <<"config", ".", "childRoutes">>)
M_canActivate ==
  MethodWith("canActivate", << <<"params">>, <<"NavigationInstruction">> >>,
             <<"return", "instruction", ".", "config", ".", "auth">>)
M_activate ==
  MethodWith("activate", << <<"params">> >>,
             <<"this", ".", "id", "=", "navigationInstruction", ".", "params", ".", "id", ";",
               "this", ".", "router", ".", "navigate", "(", "'home'", ")">>)
M_events ==
  MethodWith("listen", <<>>,
             <<"ea", ".", "subscribe", "(", "'router:navigation:complete'", ")">>)
M_bindDom ==
  MethodWith("bind", <<>>, <<"this", ".", "el", ".", "focus", "(", ")">>)
M_bindQuery == MethodWith("bind", <<>>, <<"document", ".", "querySelector", "(", "'x'", ")">>)
M_attachedTimer ==
  MethodWith("attached", <<>>, <<"setInterval", "(", "tick", ",", "1000", ")">>)
M_detached == MethodWith("detached", <<>>, <<>>)
M_unbind == MethodWith("unbind", <<>>, <<"this", ".", "sub", ".", "dispose", "(", ")">>)

MethodListsDriver ==
  { <<M_configureRouter>>,
    <<M_configureChild, M_canActivate>>,
    <<M_canActivate, M_activate>>,
    <<M_events, M_unbind>>,
    <<M_bindDom, M_attachedTimer>>,
    <<M_bindQuery, M_attachedTimer, M_detached, M_unbind>> }

\* src/main.ts, and the sources next to it
MainFiles ==
  { MkFileBody("src/main.ts", <<Import(1, "aurelia-framework", <<"Aurelia">>, NoName, NoName)>>, b) :
      b \in { <<B_useChain, B_start>>, <<B_startPlain>>, <<B_register>>,
              <<B_useChain, B_ensure>> } }
  \cup { MkFileBody("src/index.ts", <<>>, <<Expr(<<"export", "*">>)>>) }

ProjectsDriver ==
  { <<[MkFile("src/app.ts", <<Import(1, "aurelia-framework", <<"BindingEngine", "inject">>,
                                     NoName, NoName)>>, <<>>, <<c>>) EXCEPT !.body = b]>> :
      c \in { ClassChoice(FALSE, <<>>, TRUE,
                          <<ClassParam("bindingEngine", T_BindingEngine, Private, FALSE)>>, <<>>),
              ClassChoice(FALSE, <<D_autoinject>>, TRUE,
                          <<Param("http", T_HttpClient, Private, FALSE)>>, <<>>) },
      b \in { <<>>, <<B_sourceExpression, B_sourceExpressionKey>>, <<B_accept>> } }
  \cup { <<MkFile("src/app.ts", <<Import(1, "aurelia-framework",
                                         <<"inlineView", "noView", "customElement", "computedFrom">>,
                                         NoName, NoName)>>, <<>>, <<c>>)>> :
           c \in { ClassChoice(FALSE, <<D_inlineView(<<Template1>>)>>, FALSE, <<>>, <<>>),
                   ClassChoice(FALSE, <<D_inlineView(<<>>)>>, FALSE, <<>>, <<>>),
                   ClassChoice(FALSE, <<D_customElement, D_noView>>, FALSE, <<>>, <<>>) } }
  \cup { <<MkFileBody("src/boot.ts", <<Import(1, "aurelia-pal", <<"PLATFORM">>, NoName, NoName)>>, b)>> :
           b \in { <<Wrapper(1), PlatformGlobal>>, <<Wrapper2>>,
                   <<Expr(<<"PLATFORM", ".", "DOM">>),
                     Call("PLATFORM", "eachModule", << <<"cb">> >>)>> } }
  \cup { <<m>> : m \in MainFiles }
  \cup { <<MkFile("src/app.ts", <<Import(1, "aurelia-router", <<"Router">>, NoName, NoName)>>,
                  <<>>, <<ClassChoice(a, <<>>, FALSE, <<>>, ms)>>)>> :
           a \in BOOLEAN, ms \in MethodListsDriver }
  \cup { <<m, MkFile("src/app.ts", <<Import(1, "aurelia-framework", <<"autoinject">>, NoName, NoName)>>,
                     <<>>, <<ClassChoice(FALSE, <<D_autoinject>>, TRUE,
                                         <<Param("http", T_HttpClient, Private, FALSE)>>, ms)>>)>> :
           m \in MainFiles, ms \in {<<M_configureRouter>>, <<M_bindDom, M_unbind>>} }

DisksDriver ==
  { <<>>,
    <<TemplateOnDisk("src/app.html", <<E_template, E_require, E_compose, E_form>>)>>,
    <<TemplateOnDisk("src/a.html", <<E_template, E_div>>),
      TemplateOnDisk("src/b.html", <<E_template, E_button, E_input>>)>> }

InitDriver ==
  /\ InitReporter
  /\ project \in ProjectsDriver
  /\ pre = project
  /\ mark = 0
  /\ lastPass = "none"
  /\ runs = 0
  /\ disk \in DisksDriver
  /\ preDisk = disk
  /\ writes = <<>>
  /\ optWrite = FALSE
  /\ pc = DriverOrder[1]
  /\ marks = <<>>
  /\ opts \in [dry : BOOLEAN, compat : BOOLEAN]
  /\ saved = <<>>

NextDriver ==
  \/ main_transformBindingEngine
  \/ main_transformDI
  \/ main_transformComputed
  \/ main_transformCustomElement
  \/ main_transformBindingSyntax
  \/ main_transformPlatform
  \/ main_transformLifecycle
  \/ main_transformBootstrap
  \/ main_transformRouter
  \/ main_analyzePlatformUsage
  \/ main_suggestNewLifecycleHooks
  \/ main_detectLifecycleAntiPatterns
  \/ main_suggestCompatPackage
  \/ main_generateRouterMigrationGuide
  \/ main_saveSync
  \/ main_transformTemplates
  \/ main_compatNote
  \/ main_finish

SpecDriver == InitDriver /\ [][NextDriver]_vars

(***************************************************************************)
(* Claims about the driver.                                                *)
(***************************************************************************)
\* A log nothing was written to yet.
FreshLog == (data :> NewReportData(0))

\* What a step of the driver logs by itself, started from the given project
\* and templates.
StepLog(name, proj, d) ==
  CASE name = "transformBindingEngine" -> BEProject(proj, FreshLog).h[data].entries
    [] name = "transformDI" -> DIProject(proj, FreshLog).h[data].entries
    [] name = "transformComputed" -> ComputedProject(proj, FreshLog).h[data].entries
    [] name = "transformCustomElement" -> CEProject(proj, FreshLog).h[data].entries
    [] name = "transformBindingSyntax" -> BSProject(proj, FreshLog).h[data].entries
    [] name = "transformPlatform" -> PlatformProject(proj, FreshLog).h[data].entries
    [] name = "transformLifecycle" -> LCProject(proj, FreshLog).h[data].entries
    [] name = "transformBootstrap" -> BootProject(proj, FreshLog).h[data].entries
    [] name = "transformRouter" -> RouterProject(proj, FreshLog).h[data].entries
    [] name = "analyzePlatformUsage" -> PUProject(proj, FreshLog).h[data].entries
    [] name = "suggestNewLifecycleHooks" -> SuggestProject(proj, FreshLog).h[data].entries
    [] name = "detectLifecycleAntiPatterns" -> AntiProject(proj, FreshLog).h[data].entries
    [] name = "suggestCompatPackage" -> CompatProject(proj, FreshLog).h[data].entries
    [] name = "generateRouterMigrationGuide" -> GuideProject(proj, FreshLog).h[data].entries
    [] name = "transformTemplates" -> TemplateFiles(d, FreshLog, ~opts.dry).h[data].entries
    [] name = "compatNote" ->
         IF opts.compat
         THEN <<ChangeEntry("PROJECT", "note", MsgCompatMode, Undefined, Undefined)>>
         ELSE <<>>
    [] OTHER -> <<>>

\* The part of the log between the start of step i and the start of the next.
SegmentEnd(i) == IF i < Len(marks) THEN marks[i + 1].at ELSE Len(entries)
Segment(i) == SubSeq(entries, marks[i].at + 1, SegmentEnd(i))

\* C17: in a run of the driver the steps are taken in the order of its text,
\* each on the whole project before the next starts: the log is, segment by
\* segment, what each step logs by itself, in that order, with nothing before
\* the first segment and no entry of a later step before one of an earlier
\* step; finish() has been called exactly when the last step is over.
C17_LogInDriverOrder ==
  pc # "idle" =>
    /\ Len(marks) <= Len(DriverOrder)
    /\ \A i \in Idx(marks) : marks[i].pass = DriverOrder[i]
    /\ pc = (IF Len(marks) = Len(DriverOrder) THEN "done" ELSE DriverOrder[Len(marks) + 1])
    /\ marks # <<>> => marks[1].at = 0
    /\ \A i \in Idx(marks) :
         /\ marks[i].at <= SegmentEnd(i)
         /\ Segment(i) = StepLog(marks[i].pass, marks[i].project, marks[i].disk)
    /\ (finishedAt # None) <=> (pc = "done")
    /\ (result = data) <=> (pc = "done")

\* C17 witness: a run is over, with entries of four different passes, the
\* templates pass among them, and the note of the compat mode after them.
C17_Witness ==
  /\ pc = "done"
  /\ finishedAt # None
  /\ opts.compat
  /\ Segment(StepIndex("transformDI")) # <<>>
  /\ Segment(StepIndex("transformBootstrap")) # <<>>
  /\ Segment(StepIndex("transformRouter")) # <<>>
  /\ Segment(StepIndex("transformTemplates")) # <<>>
  /\ entries[Len(entries)].file = "PROJECT"

(***************************************************************************)
(* The advisory passes called on their own, as the tests call them.        *)
(***************************************************************************)
transformBootstrap ==
  /\ runs < MaxRuns
  /\ project' = BootProject(project, heap).sf
  /\ heap' = BootProject(project, heap).h
  /\ pre' = project
  /\ mark' = Len(entries)
  /\ lastPass' = "transformBootstrap"
  /\ runs' = runs + 1
  /\ UNCHANGED <<data, result, now, calls, callsAtFinish, templateVars, driverVars>>

suggestCompatPackage ==
  /\ runs < MaxRuns
  /\ project' = CompatProject(project, heap).sf
  /\ heap' = CompatProject(project, heap).h
  /\ pre' = project
  /\ mark' = Len(entries)
  /\ lastPass' = "suggestCompatPackage"
  /\ runs' = runs + 1
  /\ UNCHANGED <<data, result, now, calls, callsAtFinish, templateVars, driverVars>>

transformRouter ==
  /\ runs < MaxRuns
  /\ project' = RouterProject(project, heap).sf
  /\ heap' = RouterProject(project, heap).h
  /\ pre' = project
  /\ mark' = Len(entries)
  /\ lastPass' = "transformRouter"
  /\ runs' = runs + 1
  /\ UNCHANGED <<data, result, now, calls, callsAtFinish, templateVars, driverVars>>

generateRouterMigrationGuide ==
  /\ runs < MaxRuns
  /\ project' = GuideProject(project, heap).sf
  /\ heap' = GuideProject(project, heap).h
  /\ pre' = project
  /\ mark' = Len(entries)
  /\ lastPass' = "generateRouterMigrationGuide"
  /\ runs' = runs + 1
  /\ UNCHANGED <<data, result, now, calls, callsAtFinish, templateVars, driverVars>>

analyzePlatformUsage ==
  /\ runs < MaxRuns
  /\ project' = PUProject(project, heap).sf
  /\ heap' = PUProject(project, heap).h
  /\ pre' = project
  /\ mark' = Len(entries)
  /\ lastPass' = "analyzePlatformUsage"
  /\ runs' = runs + 1
  /\ UNCHANGED <<data, result, now, calls, callsAtFinish, templateVars, driverVars>>

suggestNewLifecycleHooks ==
  /\ runs < MaxRuns
  /\ project' = SuggestProject(project, heap).sf
  /\ heap' = SuggestProject(project, heap).h
  /\ pre' = project
  /\ mark' = Len(entries)
  /\ lastPass' = "suggestNewLifecycleHooks"
  /\ runs' = runs + 1
  /\ UNCHANGED <<data, result, now, calls, callsAtFinish, templateVars, driverVars>>

detectLifecycleAntiPatterns ==
  /\ runs < MaxRuns
  /\ project' = AntiProject(project, heap).sf
  /\ heap' = AntiProject(project, heap).h
  /\ pre' = project
  /\ mark' = Len(entries)
  /\ lastPass' = "detectLifecycleAntiPatterns"
  /\ runs' = runs + 1
  /\ UNCHANGED <<data, result, now, calls, callsAtFinish, templateVars, driverVars>>

\* Entry points in the modern form, some with legacy markers left in them;
\* the last has `Aurelia` and `.register` on two lines.
B_registerLines ==
  Expr(<<"Aurelia", "\n  ", ".", "register", "(", ")", "\n  ", ".", "app", "(", "App", ")">>)
ImportKernel == Import(1, "@aurelia/kernel", <<"DI">>, NoName, NoName)
ImportAurelia == Import(1, "aurelia", <<"Aurelia">>, NoName, NoName)

MigratedMainFiles ==
  { MkFileBody("src/main.ts", im, b) :
      im \in {<<ImportAurelia>>},
      b \in { <<B_register>>, <<B_register, B_useChain, B_start>>, <<B_register, B_useChain, B_ensure>>,
              <<B_registerLines>>, <<B_registerLines, B_useChain>> } }
  \cup { MkFileBody("src/index.ts", <<ImportKernel>>, b) :
           b \in { <<B_useChain, B_ensure>>, <<B_startPlain>> } }

M_generate == MethodWith("link", <<>>, <<"return", "this", ".", "router", ".", "generate", "(", "'home'", ")">>)
M_generateUrl == MethodWith("link", <<>>, <<"return", "generateUrl", "(", "'home'", ")">>)
M_deactivate == MethodWith("deactivate", <<>>, <<>>)
M_navigate ==
  MethodWith("go", <<>>, <<"this", ".", "router", ".", "navigate", "(", "'home'", ")">>)

PlainFile(path, ms) == MkFile(path, <<>>, <<>>, <<ClassChoice(FALSE, <<>>, FALSE, <<>>, ms)>>)

ProjectsAdvisory ==
  ProjectsDriver
  \cup { <<m>> : m \in MigratedMainFiles }
  \cup { <<m, l>> : m \in {f \in MigratedMainFiles : f.path = "src/main.ts"},
                    l \in { MkFileBody("src/index.ts", <<>>, <<B_useChain, B_ensure>>),
                            PlainFile("src/app.ts", <<M_configureRouter>>) } }
  \cup { <<PlainFile("src/app.ts", ms)>> :
           ms \in { <<M_generate>>, <<M_generateUrl>>, <<M_deactivate>>, <<M_navigate>>,
                    <<M_events>>, <<Method("save", NoType, FALSE)>> } }
  \cup { <<PlainFile("src/a.ts", m1), PlainFile("src/b.ts", m2)>> :
           m1 \in { <<M_configureRouter>>, <<M_navigate>>, <<Method("save", NoType, FALSE)>> },
           m2 \in { <<M_canActivate>>, <<M_configureRouter>>, <<M_events>>,
                    <<Method("save", NoType, FALSE)>> } }

InitAdvisory ==
  /\ InitReporter
  /\ project \in ProjectsAdvisory
  /\ pre = project
  /\ mark = 0
  /\ lastPass = "none"
  /\ runs = 0
  /\ NoTemplates
  /\ NoDriver

NextAdvisory ==
  \/ transformBootstrap
  \/ suggestCompatPackage
  \/ transformRouter
  \/ generateRouterMigrationGuide
  \/ analyzePlatformUsage
  \/ suggestNewLifecycleHooks
  \/ detectLifecycleAntiPatterns

SpecAdvisory == InitAdvisory /\ [][NextAdvisory]_vars

(***************************************************************************)
(* Claims about the advisory passes.                                       *)
(***************************************************************************)
\* The entry points of the project that show the modern form.
AlreadyMigrated(sf) ==
  FileIncludes(sf, <<"Aurelia", ".", "register">>) \/ FileHasWord(sf, "@aurelia/kernel")
MigratedEntryPoints ==
  {i \in Idx(pre) : Contains(findMainFiles(pre), i) /\ AlreadyMigrated(pre[i])}
HasLegacyMarkers(sf) ==
  /\ FileIncludes(sf, <<"aurelia", ".", "use">>)
  /\ FileIncludes(sf, <<".", "plugin", "(">>)
  /\ FileIncludes(sf, <<"require", ".", "ensure">>)

\* C21: after transformBootstrap, an entry point that contains
\* 'Aurelia.register' or '@aurelia/kernel' is as it was and no entry of the
\* run has it as its file, whatever legacy markers it holds.
C21_MigratedEntryPointSkipped ==
  lastPass = "transformBootstrap" =>
    \A i \in MigratedEntryPoints :
      /\ project[i] = pre[i]
      /\ \A k \in Idx(PassEntries) : PassEntries[k].file # pre[i].path

\* C21 witness: the pass ran on two entry points, one in the modern form that
\* also holds aurelia.use, plugin calls and a webpack marker, and one in the
\* legacy form, which got its warnings.
C21_Witness ==
  /\ lastPass = "transformBootstrap"
  /\ \E i \in MigratedEntryPoints : HasLegacyMarkers(pre[i])
  /\ \E k \in Idx(PassEntries) : PassEntries[k].message = MsgWebpack

\* The markers of router use the advisor looks for in a class: a
\* configureRouter method, a router lifecycle method, the navigation
\* instruction, navigation calls, URL generation, router events.
ClassHasRouterMarker(cls) ==
  \/ hasMethod(cls, "configureRouter")
  \/ \E i \in Idx(routerLifecycleMethodNames) : hasMethod(cls, routerLifecycleMethodNames[i])
  \/ ClassHasWord(cls, "NavigationInstruction")
  \/ ClassIncludes(cls, <<"router", ".", "navigate">>)
  \/ ClassIncludes(cls, <<"router", ".", "generate">>) \/ ClassHasWord(cls, "generateUrl")
  \/ ClassHasWord(cls, "router:navigation:") \/ ClassHasWord(cls, "RouterEvent")
FileHasRouterMarker(sf) == \E c \in Idx(sf.classes) : ClassHasRouterMarker(sf.classes[c])
FilesWithRouterMarker == {i \in Idx(pre) : FileHasRouterMarker(pre[i])}

\* The guide as it stands in the log: the header and the five points.
GuideEntries ==
  [i \in 1..Len(RouterGuide) |->
     ChangeEntry("ROUTER_MIGRATION", "note", RouterGuide[i], Undefined, Undefined)]

GuideRan == lastPass = "generateRouterMigrationGuide"

\* C22: generateRouterMigrationGuide logs the guide, once, when some file of
\* the project holds a marker of router use that the advisor reports on, and
\* logs nothing when no file holds one.
C22_GuideOnceIffRouterMarker ==
  GuideRan =>
    PassEntries = (IF FilesWithRouterMarker # {} THEN GuideEntries ELSE <<>>)

\* The guide is never logged twice in a run, and when it is logged some file
\* holds a marker.
C22_GuideAtMostOnce ==
  GuideRan =>
    /\ PassEntries \in {GuideEntries, <<>>}
    /\ PassEntries = GuideEntries => FilesWithRouterMarker # {}

AdvisoryPasses ==
  { "transformBootstrap", "suggestCompatPackage", "transformRouter",
    "generateRouterMigrationGuide", "analyzePlatformUsage", "suggestNewLifecycleHooks",
    "detectLifecycleAntiPatterns" }

\* C23: an advisory pass leaves every source file as it was and logs warn
\* and note entries only.
C23_AdvisoryPassesOnlyAdvise ==
  lastPass \in AdvisoryPasses =>
    /\ project = pre
    /\ \A k \in Idx(PassEntries) : PassEntries[k].kind \in {"warn", "note"}

\* C23 witness: transformRouter ran on a class with a configureRouter method
\* after another advisory pass and logged warnings and notes.
C23_Witness ==
  /\ lastPass = "transformRouter"
  /\ runs = 2
  /\ mark > 0
  /\ \E c \in Idx(pre[1].classes) : hasMethod(pre[1].classes[c], "configureRouter")
  /\ \E k \in Idx(PassEntries) : PassEntries[k].kind = "warn"
  /\ \E k \in Idx(PassEntries) : PassEntries[k].kind = "note"

(***************************************************************************)
(* transformLifecycle on its own.                                          *)
(***************************************************************************)
M_unbindPlain == MethodWith("unbind", <<>>, <<"this", ".", "sub", ".", "dispose", "(", ")">>)
M_detachedCalls ==
  MethodWith("detached", <<>>, <<"this", ".", "unbind", "(", ")", ";", "other", ".", "unbind", "(", ")">>)
M_unbinding == MethodWith("unbinding", <<>>, <<>>)
P_unbind ==
  [kind |-> "PropertyDeclaration", name |-> <<"unbind">>, scope |-> Public,
   isReadonly |-> FALSE, type |-> NoType, initializer |-> <<"noop">>, decos |-> <<>>]

MethodListsRename ==
  MethodListsLC
  \cup { <<M_unbindPlain>>,
         <<M_unbindPlain, M_detachedCalls>>,
         <<M_detachedCalls, M_unbindPlain>>,
         <<M_detachedCalls>>,
         <<M_unbindPlain, M_unbinding>>,
         <<P_unbind, M_bindDom>>,
         <<M_bindDom, M_unbindPlain, M_attachedTimer>> }

ClassChoicesRename ==
  { ClassChoice(FALSE, ds, FALSE, <<>>, ms) :
      ds \in {<<>>, <<D_customElement>>}, ms \in MethodListsRename }

ProjectsLifecycle ==
  { <<MkFile("test.ts", <<>>, <<>>, <<c>>)>> : c \in ClassChoicesRename }
  \cup { <<MkFile("test.ts", <<Import(1, "aurelia-framework", <<"customElement">>, NoName, NoName)>>,
                  <<>>, <<c1, c2>>)>> :
           c1 \in { ClassChoice(FALSE, <<D_customElement>>, FALSE, <<>>, <<M_unbindPlain>>),
                    ClassChoice(TRUE, <<>>, FALSE, <<>>, <<M_unbindPlain, M_detachedCalls>>) },
           c2 \in { ClassChoice(FALSE, <<>>, FALSE, <<>>, ms) : ms \in MethodListsRename } }
  \cup { <<MkFile("a.ts", <<>>, <<>>, <<c1>>), MkFile("b.ts", <<>>, <<>>, <<c2>>)>> :
           c1 \in { ClassChoice(FALSE, <<>>, FALSE, <<>>, <<M_unbindPlain>>) },
           c2 \in { ClassChoice(FALSE, <<>>, FALSE, <<>>, ms) :
                      ms \in { <<M_unbindPlain, M_detachedCalls>>, <<M_bindDom>>,
                               <<Method("unbind", T_PromiseVoid, FALSE)>> } } }

InitLifecycle ==
  /\ InitReporter
  /\ project \in ProjectsLifecycle
  /\ pre = project
  /\ mark = 0
  /\ lastPass = "none"
  /\ runs = 0
  /\ NoTemplates
  /\ NoDriver

NextLifecycle == transformLifecycle \/ suggestNewLifecycleHooks

SpecLifecycle == InitLifecycle /\ [][NextLifecycle]_vars

(***************************************************************************)
(* Claims about transformLifecycle.                                        *)
(***************************************************************************)
LifecycleRan == lastPass = "transformLifecycle"

isUnbindMethod(m) == isMethod(m) /\ m.name = <<"unbind">>
UnbindMethods(sf) ==
  {<<c, k>> \in UNION {{c} \X Idx(sf.classes[c].members) : c \in Idx(sf.classes)} :
     isUnbindMethod(sf.classes[c].members[k])}
HasUnbindMethod(cls) == \E k \in Idx(cls.members) : isUnbindMethod(cls.members[k])

\* A member as the rename of the unbind method of its class leaves it: the
\* method itself is named unbinding, and an access `this.unbind` in a body of
\* the class is an access `this.unbinding`.
BodyAfterRename(body) ==
  [i \in 1..Len(body) |->
     IF i > 2 /\ body[i - 2] = "this" /\ body[i - 1] = "." /\ body[i] = "unbind"
     THEN "unbinding" ELSE body[i]]
MemberAfterRename(m) ==
  IF isUnbindMethod(m)
  THEN IF "body" \in DOMAIN m
       THEN [m EXCEPT !.name = <<"unbinding">>, !.body = BodyAfterRename(@)]
       ELSE [m EXCEPT !.name = <<"unbinding">>]
  ELSE IF "body" \in DOMAIN m THEN [m EXCEPT !.body = BodyAfterRename(@)] ELSE m
ClassAfterRename(cls) ==
  IF HasUnbindMethod(cls)
  THEN [cls EXCEPT !.members = [k \in 1..Len(cls.members) |-> MemberAfterRename(cls.members[k])]]
  ELSE cls
FileAfterRename(sf) ==
  [sf EXCEPT !.classes = [c \in 1..Len(sf.classes) |-> ClassAfterRename(sf.classes[c])]]

\* The edit entries of the run that report the rename of a method of class c
\* of file i.
RenameEdits(i, c) ==
  {k \in Idx(PassEntries) :
     /\ PassEntries[k].kind = "edit"
     /\ PassEntries[k].file = pre[i].path
     /\ PassEntries[k].message
          = MsgRenamed(<<"unbind">>, <<"unbinding">>, ClassNameOr(pre[i].classes[c]))}
AllEdits == {k \in Idx(PassEntries) : PassEntries[k].kind \in ChangeKinds}

D_ai == Decorator(NoName, "ai", FALSE, <<>>)
D_auAutoinject == Decorator(<<"au">>, "autoinject", FALSE, <<>>)
D_libAutoinject == Decorator(<<"lib">>, "autoinject", FALSE, <<>>)

ImportListsMarker ==
  { <<Import(1, "aurelia-framework", <<"autoinject">>, NoName, NoName)>>,
    <<AliasImport(1, "aurelia-framework", "autoinject", "ai")>>,
    <<AliasImport(1, "aurelia-dependency-injection", "autoinject", "ai"),
      Import(2, "my-di", <<"autoinject">>, NoName, NoName)>>,
    <<Import(1, "aurelia-framework", <<>>, NoName, <<"au">>)>>,
    <<Import(1, "aurelia-framework", <<>>, NoName, <<"au">>),
      Import(2, "my-di", <<>>, NoName, <<"lib">>)>>,
    <<Import(1, "my-di", <<"autoinject">>, NoName, NoName)>>,
    <<Import(1, "aurelia", <<"autoinject">>, NoName, NoName)>> }

DecoratorListsMarker ==
  { <<D_autoinject>>, <<D_ai>>, <<D_auAutoinject>>, <<D_libAutoinject>>,
    <<D_customElement, D_autoinject>>, <<D_ai, D_customElement>>, <<D_customElement>> }

ClassChoicesMarker ==
  { ClassChoice(FALSE, ds, TRUE, pl, <<>>) :
      ds \in DecoratorListsMarker,
      pl \in { <<>>, <<Param("http", T_HttpClient, Private, FALSE)>> } }

ProjectsMarker ==
  { <<MkFile("test.ts", im, <<>>, <<c>>)>> : im \in ImportListsMarker, c \in ClassChoicesMarker }

InitMarker ==
  /\ InitReporter
  /\ project \in ProjectsMarker
  /\ pre = project
  /\ mark = 0
  /\ lastPass = "none"
  /\ runs = 0
  /\ NoTemplates
  /\ NoDriver

NextMarker == transformDI

SpecMarker == InitMarker /\ [][NextMarker]_vars

\* The decorator refers to the autoinject of a legacy module: by the local
\* name of a named import of it, or through a namespace import of the module.
autoinjectLocals(sf) == LocalsOf(sf, aureliaV1ModulesDI, <<"autoinject">>)
autoinjectNamespaces(sf) == NamespacesOf(sf, aureliaV1ModulesDI)
ResolvesToAutoinject(sf, d) ==
  \/ d.qual = NoName /\ d.name \in autoinjectLocals(sf)
  \/ d.qual # NoName /\ d.qual \in autoinjectNamespaces(sf) /\ d.name = <<"autoinject">>

\* C25: after transformDI the decorators of a class are those it had, without
\* the ones that refer to the autoinject of a legacy module (by its name, by
\* an alias, or through a namespace import); a decorator that has the name
\* without being imported from a legacy module stays.
C25_MarkerBySymbol ==
  DIRan =>
    \A i \in Idx(pre) : \A c \in Idx(pre[i].classes) :
      project[i].classes[c].decorators
        = SelectSeq(pre[i].classes[c].decorators, LAMBDA d : ~ResolvesToAutoinject(pre[i], d))

\* The two references the pass does recognise as the claim says: the plain
\* name of a named import and the access through a namespace import.
C25_PlainAndQualifiedRemoved ==
  DIRan =>
    \A i \in Idx(pre) : \A c \in Idx(pre[i].classes) :
      \A k \in Idx(pre[i].classes[c].decorators) :
        /\ ResolvesToAutoinject(pre[i], pre[i].classes[c].decorators[k])
        /\ pre[i].classes[c].decorators[k].name = <<"autoinject">>
        => ~Contains(project[i].classes[c].decorators, pre[i].classes[c].decorators[k])

\* The local names a file binds by named imports of the legacy modules.
LegacyBindings(sf) ==
  UNION { {LocalName(sf.imports[i].named[k]) : k \in Idx(sf.imports[i].named)} :
          i \in {j \in Idx(sf.imports) : Contains(aureliaV1ModulesDI, sf.imports[j].module)} }
\* The local names a file binds by any named import.
NamedBindings(sf) ==
  UNION { {LocalName(sf.imports[i].named[k]) : k \in Idx(sf.imports[i].named)} : i \in Idx(sf.imports) }
\* The names the class decorators of a file use unqualified.
DecoratorUses(sf) ==
  UNION { {sf.classes[c].decorators[k].name :
             k \in {j \in Idx(sf.classes[c].decorators) : sf.classes[c].decorators[j].qual = NoName}} :
          c \in Idx(sf.classes) }

\* C26: a pass over the legacy decorators removes no legacy import binding
\* whose local name a decorator left in the file still uses.
C26_UsedBindingKept ==
  lastPass \in {"transformDI", "transformComputed", "transformCustomElement"} =>
    \A i \in Idx(pre) :
      (LegacyBindings(pre[i]) \ NamedBindings(project[i])) \cap DecoratorUses(project[i]) = {}

\* A BindingEngine constructor parameter the pass does not convert: it is not
\* a parameter property, or the class already has a property of its name.
NotConverted(sf, cls, p) ==
  /\ bindingEngineLocals(sf) # {}
  /\ cls.hasCtor
  /\ isBindingEngine(p, bindingEngineLocals(sf))
  /\ ~isParameterProperty(p) \/ getProperty(cls, p.name)
HasNotConverted(sf, cls) == \E k \in Idx(cls.params) : NotConverted(sf, cls, cls.params[k])

\* The call-form @inject decorators of a class
InjectCalls(cls) == SelectSeq(cls.decorators, LAMBDA d : d.name = <<"inject">> /\ d.call)
\* @inject(...) has one argument per constructor parameter, the type of each
Aligned(cls) ==
  \A k \in Idx(InjectCalls(cls)) :
    /\ Len(InjectCalls(cls)[k].args) = Len(cls.params)
    /\ \A j \in Idx(cls.params) : InjectCalls(cls)[k].args[j] = cls.params[j].typeText

\* The parameter of a class that is not converted stays, and a warning names it.
C27_NotConvertedParamStays ==
  BindingEngineRan =>
    \A i \in Idx(pre) : \A c \in Idx(pre[i].classes) :
      \A k \in Idx(pre[i].classes[c].params) :
        NotConverted(pre[i], pre[i].classes[c], pre[i].classes[c].params[k])
        => /\ Contains(project[i].classes[c].params, pre[i].classes[c].params[k])
           /\ \E e \in Idx(PassEntries) :
                /\ PassEntries[e].kind = "warn"
                /\ PassEntries[e].file = pre[i].path

\* C27: a class with a BindingEngine parameter that is not converted keeps
\* that parameter and its @inject(...) decorators, so that an @inject list
\* that was aligned with the constructor parameters is aligned afterwards.
C27_InjectStaysAligned ==
  BindingEngineRan =>
    \A i \in Idx(pre) : \A c \in Idx(pre[i].classes) :
      HasNotConverted(pre[i], pre[i].classes[c]) /\ Aligned(pre[i].classes[c])
      => /\ InjectCalls(project[i].classes[c]) = InjectCalls(pre[i].classes[c])
         /\ Aligned(project[i].classes[c])

(***************************************************************************)
(* transformDI on interface-typed parameter properties and the tokens it   *)
(* generates for them.                                                     *)
(***************************************************************************)
T_IRepoA == <<"IRepo", "<", "A", ">">>
T_IRepoB == <<"IRepo", "<", "B", ">">>

\* A parameter whose type the compiler reports as `kind`: type.isInterface()
\* of an instantiation of a generic interface is taken either way.
KindParam(name, typeText, kind) ==
  [Param(name, typeText, Private, FALSE) EXCEPT !.tkind = kind]
GenericKinds == {"interface", "other"}

ParamListsTokens ==
  { <<Param("logger", T_ILogger, Private, FALSE)>>,
    <<Param("logger", T_ILogger, Private, FALSE), Param("audit", T_ILogger, Protected, TRUE)>>,
    <<Param("http", T_HttpClient, Private, FALSE), Param("logger", T_ILogger, Private, FALSE)>> }
  \cup { <<KindParam("users", T_IRepoA, k)>> : k \in GenericKinds }
  \cup { <<KindParam("users", T_IRepoA, k), KindParam("orders", T_IRepoB, k)>> : k \in GenericKinds }
  \cup { <<Param("logger", T_ILogger, Private, FALSE), KindParam("orders", T_IRepoB, k)>> :
           k \in GenericKinds }

\* Variables the file declares before the pass; none of them is a DI token.
VarListsTokens ==
  { <<>>,
    <<[name |-> <<"API_URL">>, init |-> <<"'/api'">>]>>,
    <<[name |-> <<"ILogger", "Token">>, init |-> <<"'legacy-logger'">>]>>,
    <<[name |-> <<"IRepo", "Token">>, init |-> <<"Symbol", "(", "'repo'", ")">>]>> }

ClassChoicesTokens ==
  { ClassChoice(FALSE, ds, TRUE, pl, <<>>) :
      ds \in { <<>>, <<D_autoinject>> }, pl \in ParamListsTokens }

ProjectsTokens ==
  { <<MkFile("test.ts", <<Import(1, "aurelia-framework", <<"autoinject">>, NoName, NoName)>>,
             vs, <<c>>)>> : vs \in VarListsTokens, c \in ClassChoicesTokens }

InitTokens ==
  /\ InitReporter
  /\ project \in ProjectsTokens
  /\ pre = project
  /\ mark = 0
  /\ lastPass = "none"
  /\ runs = 0
  /\ NoTemplates
  /\ NoDriver

NextTokens == transformDI

SpecTokens == InitTokens /\ [][NextTokens]_vars

\* The parameter properties of a class the pass initializes with a token
TokenParams(cls) ==
  IF cls.hasCtor
  THEN SelectSeq(cls.params,
                 LAMBDA p : isParameterProperty(p) /\ p.tkind = "interface" /\ p.typeText # NoType)
  ELSE <<>>
\* The initializer of the property `name` of a class
InitializerOf(cls, name) ==
  LET k == CHOOSE j \in Idx(cls.members) :
             cls.members[j].kind = "PropertyDeclaration" /\ cls.members[j].name = name
  IN cls.members[k].initializer
HasProperty(cls, name) ==
  \E j \in Idx(cls.members) :
    cls.members[j].kind = "PropertyDeclaration" /\ cls.members[j].name = name
\* The names of the variables a file declares
VarNames(sf) == {sf.vars[j].name : j \in Idx(sf.vars)}
\* The token names the initializers of the class's token properties refer to
TokenUsed(cls, p) == SubSeq(InitializerOf(cls, p.name), 2, Len(InitializerOf(cls, p.name)) - 1)

\* Two parameter properties of one class whose interface types differ are
\* not initialized with the same token.
C28_DistinctTypesDistinctTokens ==
  DIRan =>
    \A i \in Idx(pre) : \A c \in Idx(pre[i].classes) :
      \A x, y \in Idx(TokenParams(pre[i].classes[c])) :
        TokenParams(pre[i].classes[c])[x].typeText # TokenParams(pre[i].classes[c])[y].typeText
        => InitializerOf(project[i].classes[c], TokenParams(pre[i].classes[c])[x].name)
             # InitializerOf(project[i].classes[c], TokenParams(pre[i].classes[c])[y].name)

\* C28: the token a parameter property of interface type is initialized
\* with is a variable the pass created, never one the file declared before,
\* and properties of different interface types get different tokens.
C28_TokensNeverCollide ==
  /\ C28_DistinctTypesDistinctTokens
  /\ DIRan =>
       \A i \in Idx(pre) : \A c \in Idx(pre[i].classes) :
         \A x \in Idx(TokenParams(pre[i].classes[c])) :
           TokenUsed(project[i].classes[c], TokenParams(pre[i].classes[c])[x]) \notin VarNames(pre[i])

\* The template the pass extracts from the view decorator d: `null` for
\* @noView, the first argument for @inlineView(...)
TemplateOf(d) == IF d.name = <<"noView">> THEN <<"null">> ELSE d.args[1]
\* A @customElement decorator called with an object literal that has the
\* property `template: t`
CarriesTemplate(d, t) ==
  /\ d.name = <<"customElement">>
  /\ d.call
  /\ Len(d.args) = 1
  /\ isObjectLiteral(d.args[1])
  /\ Includes(d.args[1], <<"template", ":">> \o t)
\* The view decorators of a class that a later state of it no longer has
RemovedViews(cls0, cls1, sf) ==
  {i \in InlineViewsOf(cls0, sf) \cup NoViewsOf(cls0, sf) :
     ~Contains(cls1.decorators, cls0.decorators[i])}

\* C29: a view decorator (@inlineView, @noView) that transformCustomElement
\* removed from a class has its template on a @customElement decorator of
\* that class after the pass.
C29_TemplateNeverLost ==
  CustomElementRan =>
    \A fi \in FileIdx : \A ci \in ClassIdx(fi) :
      \A i \in RemovedViews(pre[fi].classes[ci], project[fi].classes[ci], pre[fi]) :
        \E k \in Idx(project[fi].classes[ci].decorators) :
          CarriesTemplate(project[fi].classes[ci].decorators[k],
                          TemplateOf(pre[fi].classes[ci].decorators[i]))

\* The same, for the classes whose sibling @customElement is merged or added
\* without refusal: one view decorator, and a sibling that is absent, or a
\* call with no argument, one object literal without template, or one other
\* argument.
MergeAccepted(cls, sf) ==
  /\ ExtractsTemplate(cls, sf)
  /\ \/ Len(CustomElementsOf(cls, sf)) = 0
     \/ /\ CustomElementsOf(cls, sf)[1].call
        /\ Len(CustomElementsOf(cls, sf)[1].args) <= 1
        /\ ~SiblingHasTemplate(cls, sf)
C29_TemplateKeptWhenMerged ==
  CustomElementRan =>
    \A fi \in FileIdx : \A ci \in ClassIdx(fi) :
      MergeAccepted(pre[fi].classes[ci], pre[fi]) =>
        \A i \in RemovedViews(pre[fi].classes[ci], project[fi].classes[ci], pre[fi]) :
          \E k \in Idx(project[fi].classes[ci].decorators) :
            CarriesTemplate(project[fi].classes[ci].decorators[k],
                            TemplateOf(pre[fi].classes[ci].decorators[i]))

(***************************************************************************)
(* transformTemplates on markup whose attribute names repeat a binding     *)
(* command.                                                                *)
(***************************************************************************)
E_doubleDelegate ==
  Element("button", <<Attr(<<"click", ".delegate", ".delegate">>, <<"handleClick()">>)>>)
E_delegateCall == Element("my-list", <<Attr(<<"pick", ".delegate", ".call">>, <<"pick()">>)>>)
E_viewModelRef == Element("my-list", <<Attr(<<"view-model", ".ref">>, <<"list">>)>>)

DocsMarkup ==
  Docs \cup { <<E_template, E_doubleDelegate>>,
              <<E_template, E_delegateCall, E_viewModelRef>>,
              <<E_template, E_compose, E_doubleDelegate>> }

DisksMarkup ==
  { <<TemplateOnDisk("test.html", d)>> : d \in DocsMarkup }
  \cup
  { <<TemplateOnDisk("file1.html", d1), TemplateOnDisk("file2.html", d2)>> :
      d1 \in {<<E_template, E_doubleDelegate>>, <<E_template, E_div>>},
      d2 \in {<<E_template, E_delegateCall, E_viewModelRef>>, <<E_template, E_button, E_input>>} }

InitMarkup ==
  /\ InitReporter
  /\ project = <<>>
  /\ pre = <<>>
  /\ mark = 0
  /\ lastPass = "none"
  /\ runs = 0
  /\ disk \in DisksMarkup
  /\ preDisk = disk
  /\ writes = <<>>
  /\ optWrite = FALSE
  /\ NoDriver

NextMarkup == transformTemplates

SpecMarkup == InitMarkup /\ [][NextMarkup]_vars

\* The markup the pass is to leave none of
LegacyTag(e) == e.tagName \in {"require", "router-view", "compose"}
LegacyAttr(a) ==
  \/ endsWith(a.name, ".delegate")
  \/ endsWith(a.name, ".call")
  \/ a.name = <<"view-model", ".ref">>
HasLegacyMarkup(doc) ==
  \E e \in Idx(doc) : LegacyTag(doc[e]) \/ \E i \in Idx(doc[e].attrs) : LegacyAttr(doc[e].attrs[i])
EditEntries == {e \in Idx(PassEntries) : PassEntries[e].kind = "edit"}

\* C30: the markup transformTemplates has visited and written back has no
\* require, router-view or compose element and no attribute name ending in
\* .delegate or .call or equal to view-model.ref; and a run over markup
\* without any of these logs no edit.
C30_NoLegacyMarkupLeft ==
  /\ TemplatesRan /\ optWrite => \A k \in Idx(disk) : ~HasLegacyMarkup(disk[k].doc)
  /\ TemplatesRan /\ (\A k \in Idx(preDisk) : ~HasLegacyMarkup(preDisk[k].doc)) => EditEntries = {}

\* The same for markup in which no attribute name has `.delegate` twice.
RepeatsDelegate(doc) ==
  \E e \in Idx(doc) : \E i \in Idx(doc[e].attrs) :
    Cardinality({j \in Idx(doc[e].attrs[i].name) : doc[e].attrs[i].name[j] = ".delegate"}) > 1
C30_NoLegacyMarkupLeftUnlessRepeated ==
  /\ TemplatesRan /\ optWrite =>
       \A k \in Idx(disk) : ~RepeatsDelegate(preDisk[k].doc) => ~HasLegacyMarkup(disk[k].doc)
  /\ TemplatesRan /\ (\A k \in Idx(preDisk) : ~HasLegacyMarkup(preDisk[k].doc)) => EditEntries = {}

====
